---- MODULE Spec2Model ----
(***************************************************************************)
(* A model of wesrobin/fuse-test: the three cache policies of cache.go     *)
(* (defaultCache, sizeLimitedCache, lruCache), the path flattening of      *)
(* util.go and the read-through of node.go (fuseFSNode.data).              *)
(*                                                                         *)
(* Every cache operation is modelled at the granularity of its lock        *)
(* acquisitions and of its calls to the operating system, so that          *)
(* concurrent requests interleave the way goroutines of the FUSE server    *)
(* can.  A path is a sequence of one-character strings.                    *)
(***************************************************************************)
EXTENDS Integers, Sequences, FiniteSets, TLC

\* ------------------------------------------------------------------ bounds

\* Largest LRU capacity handed to NewLRUCache (the -lrucap flag).
MaxCapacity == 2
\* Largest byte budget handed to NewSizeLimitedCache (the -sizelim flag).
MaxBudget == 3
\* Longest path handed to flattenDirPath, in characters.
MaxPathLen == 3
\* Most nodes of a node graph that the tree builder makes, the root included.
MaxNodes == 3
\* The most calls of GenerateInode that the FUSE server makes.
MaxCalls == 3

\* Concurrent request-handling goroutines.
Procs == {"p1", "p2"}

\* Relative paths handed to the cache by its callers.
Paths == { <<"a">>, <<"b">>, <<"d", "/", "c">> }

\* Payloads a caller may hand to Put; their lengths are 1 and 2 bytes.
Payloads == { <<1>>, <<2, 2>> }

\* ------------------------------------------------------------------ values

Nil == "nil"
\* An optional value: None, or Some(x).  A *string that is nil or points to a key;
\* a file that is absent or holds its bytes (an empty file is Some(<< >>)).
None == << >>
Some(x) == <<x>>
NoFile == None
ErrNotFoundCache == "not found in cache"
ErrWontCache == "cache refused the file"
\* Any other error of the operating system (EIO, EACCES, ...).
ErrIO == "io error"

\* ------------------------------------------------------------------ util.go

\* flattenDirPath deleting each "/" instead of replacing it.
flattenDroppingSeparator(path) == SelectSeq(path, LAMBDA c : c # "/")

\* strings.ReplaceAll(path, "/", "$")
flattenDirPath(path) ==
  [i \in 1..Len(path) |-> IF path[i] = "/" THEN "$" ELSE path[i]]

FlatKeys == { flattenDirPath(p) : p \in Paths \cup {<<"d", "$", "c">>} }

\* ------------------------------------------------------------------ state

VARIABLES
  policy,     \* which constructor built the cache: "none", "default", "size", "lru"
  status,     \* "unbuilt", "ready", or "fatal" (log.Fatalf ended the process)
  capacity,   \* lruCache.capacity
  byteLimit,  \* sizeLimitedCache.byteLimit
  byteCount,  \* sizeLimitedCache.byteCount
  isPresent,  \* the isPresent map of the size-limited and LRU caches, as a set
  queue,      \* lruCache.queue
  ssd,        \* the files of the SSD directory: flat key -> payload or NoFile
  cacheMu,    \* the cache's sync.RWMutex: [writer, readers]
  queueMu,    \* lruCache.queueMu: its holder or Nil
  pc,         \* each goroutine's position
  path,       \* each goroutine's path argument
  buf,        \* each goroutine's data argument (Put) or returned bytes (Get)
  err,        \* each goroutine's returned error
  evicted,    \* each goroutine's evicted key inside lruCache.Put
  res,        \* each goroutine's result of fuseFSNode.data: [bytes, err]
  nfsData,    \* each goroutine's nfsData inside fuseFSNode.data
  log,        \* the log lines each goroutine's current request has printed
  calls,      \* the calls each goroutine's current request has made, in order
  touched,    \* history: the keys ever touched, least recently touched first
  admitted,   \* history: the bytes of all Puts the size-limited cache accepted
  refused,    \* history: the sizes of the Puts the size-limited cache refused
  accepted,   \* history: the keys of the Puts the size-limited cache accepted
  settled,    \* history: per key, the bytes of the last successful default-cache
              \* Put, or None once a later Put of the key has opened the file
  tree,       \* the node graph: the fuseFSNode at each index, the root at 1,
              \* a node's Children being the indices of its child nodes
  found,      \* each goroutine's Lookup or ReadDirAll request and its result
  nfs,        \* the backing store: whether the NFS and SSD directories exist,
              \* the relative paths of its entries, the directories that
              \* cannot be listed
  lastInode,  \* fuseFS.lastInode
  fsStatus,   \* "new", "built" (NewFS returned) or "fatal" (log.Fatalf)
  flatPath,   \* each goroutine's result of flattenDirPath, None before the call
  inodeTmp,   \* each goroutine's register inside GenerateInode: the value of
              \* lastInode it loaded, incremented once it has stored it
  nodesByRelPath, \* loadFSTree's map from a relative path to a node's index
  readmitted, \* history: Some(k) when the last key put into the LRU queue is k,
              \* k had been evicted before, and no other key was touched since
  walkErrors, \* history: the paths whose error the walk handed to the callback,
              \* each printed as "Error accessing path ... Skipping subtree."
  mount,      \* main's progress past NewFS: "unmounted", "mounted" (Mount
              \* returned nil) or "serving" (Serve dispatches requests)
  handed,     \* history: the inodes GenerateInode has returned, in order
  fresh       \* history: per file, the bytes its last content read returned if
              \* that read loaded the cache and since then the key was neither
              \* evicted nor put by the read of another file

cacheVars == <<policy, status, capacity, byteLimit, byteCount, isPresent, queue, ssd>>
lockVars == <<cacheMu, queueMu>>
procVars == <<pc, path, buf, err, evicted>>
reqVars == <<res, nfsData, log, calls>>
histVars == <<touched, admitted, refused, accepted, settled, fresh, readmitted>>
fsVars == <<tree, found, nfs, lastInode, fsStatus>>
utilVars == <<flatPath, inodeTmp>>
walkVars == <<nodesByRelPath, handed, walkErrors, mount>>
vars == <<cacheVars, lockVars, procVars, reqVars, histVars, fsVars, utilVars,
         walkVars>>

NoBytes == << >>
NoResult == [bytes |-> NoBytes, err |-> Nil]

\* The first position of Get and of Put under each policy.
GetEntry == [default |-> "def_get", size |-> "size_get", lru |-> "lru_get"]
PutEntry == [default |-> "def_put", size |-> "size_put", lru |-> "lru_put"]

\* ------------------------------------------------------------------ locks

\* sync.RWMutex.RLock: blocks while a writer holds the lock.
RLock(p) ==
  /\ cacheMu.writer = Nil
  /\ cacheMu' = [cacheMu EXCEPT !.readers = @ \cup {p}]

RUnlock(p) == cacheMu' = [cacheMu EXCEPT !.readers = @ \ {p}]

\* sync.RWMutex.Lock: blocks while a writer or any reader holds the lock.
Lock(p) ==
  /\ cacheMu.writer = Nil
  /\ cacheMu.readers = {}
  /\ cacheMu' = [cacheMu EXCEPT !.writer = p]

Unlock(p) == cacheMu' = [cacheMu EXCEPT !.writer = Nil]

\* ------------------------------------------------------------------ lruCache

\* The index of the first occurrence of key in q, 0 when absent (foundIdx).
IndexOf(q, key) ==
  IF \E i \in 1..Len(q) : q[i] = key
  THEN CHOOSE i \in 1..Len(q) : q[i] = key /\ \A j \in 1..(i - 1) : q[j] # key
  ELSE 0

\* append(q[:i], q[i+1:]...)
RemoveAt(q, i) == [j \in 1..(Len(q) - 1) |-> IF j < i THEN q[j] ELSE q[j + 1]]

\* promote with the capacity test off by one: len(queue) > capacity+1.
promoteOffByOne(q, key, cap) ==
  LET idx == IndexOf(q, key)
      removed == IF idx # 0 THEN RemoveAt(q, idx) ELSE q
      appended == Append(removed, key)
  IN  IF Len(appended) > cap + 1
      THEN [queue |-> Tail(appended), evicted |-> Some(Head(appended))]
      ELSE [queue |-> appended, evicted |-> None]

\* promote that appends the key without removing its old occurrence.
promoteNoRemove(q, key, cap) ==
  LET appended == Append(q, key)
  IN  IF Len(appended) > cap
      THEN [queue |-> Tail(appended), evicted |-> Some(Head(appended))]
      ELSE [queue |-> appended, evicted |-> None]

\* promote that tests the capacity against the queue as it was before the
\* key's old occurrence was removed: a full queue evicts its front also when
\* the key was in it.
promoteEvictingOnRepeat(q, key, cap) ==
  LET idx == IndexOf(q, key)
      removed == IF idx # 0 THEN RemoveAt(q, idx) ELSE q
      appended == Append(removed, key)
  IN  IF Len(q) + 1 > cap
      THEN [queue |-> Tail(appended), evicted |-> Some(Head(appended))]
      ELSE [queue |-> appended, evicted |-> None]

\* lruCache.promote on queue q: the new queue and the evicted key (None if none).
promote(q, key, cap) ==
  LET idx == IndexOf(q, key)
      removed == IF idx # 0 THEN RemoveAt(q, idx) ELSE q
      appended == Append(removed, key)
  IN  IF Len(appended) > cap
      THEN [queue |-> Tail(appended), evicted |-> Some(Head(appended))]
      ELSE [queue |-> appended, evicted |-> None]

\* The history of loaded files once the key ev (if any) has been evicted.
Stale(h, ev) ==
  [pth \in DOMAIN h |-> IF ev # None /\ flattenDirPath(pth) = ev[1]
                        THEN None ELSE h[pth]]

\* The touch history: key becomes the most recently touched.
\* The key put back after its eviction, once Put has promoted key and evicted ev:
\* key itself if it was touched before and is not in the queue q.
Readmit(r, q, h, key, ev) ==
  IF ev = Some(key) THEN None
  ELSE IF IndexOf(h, key) # 0 /\ IndexOf(q, key) = 0 THEN Some(key)
  ELSE IF r = Some(key) THEN r ELSE None

\* The key put back after its eviction, once Get has promoted key and evicted ev.
Reread(r, key, ev) == IF r = Some(key) /\ ev # Some(key) THEN r ELSE None

Touch(h, key) ==
  LET idx == IndexOf(h, key)
  IN  Append(IF idx # 0 THEN RemoveAt(h, idx) ELSE h, key)

\* NewLRUCache without the capacity test.
NewLRUCacheNoCheck(c) ==
  /\ status = "unbuilt"
  /\ policy' = "lru"
  /\ status' = "ready"
  /\ capacity' = c
  /\ UNCHANGED <<byteLimit, byteCount, isPresent, queue, ssd, lockVars, procVars, reqVars, histVars,
                 fsVars, utilVars, walkVars>>

\* NewLRUCache(path, capacity): capacity zero is fatal.
NewLRUCache(c) ==
  /\ status = "unbuilt"
  /\ policy' = "lru"
  /\ IF c = 0
     THEN /\ status' = "fatal"
          /\ UNCHANGED capacity
     ELSE /\ status' = "ready"
          /\ capacity' = c
  /\ UNCHANGED <<byteLimit, byteCount, isPresent, queue, ssd, lockVars, procVars, reqVars, histVars,
                 fsVars, utilVars, walkVars>>

\* lruCache.Get without the deferred RUnlock on a miss: the read lock is still
\* held when Get has returned ErrNotFoundCache.
LruGetCheckHoldingLock(p) ==
  /\ pc[p] = "lru_get"
  /\ RLock(p)
  /\ IF flattenDirPath(path[p]) \notin isPresent
     THEN /\ err' = [err EXCEPT ![p] = ErrNotFoundCache]
          /\ pc' = [pc EXCEPT ![p] = "get_done"]
     ELSE /\ pc' = [pc EXCEPT ![p] = "lru_get_promote"]
          /\ UNCHANGED err
  /\ UNCHANGED <<cacheVars, queueMu, path, buf, evicted, reqVars, histVars,
                 fsVars, utilVars, walkVars>>

\* lruCache.Get: lru.cacheMu.RLock() and the membership test, which returns
\* ErrNotFoundCache on a miss (the deferred RUnlock runs on return).
LruGetCheck(p) ==
  /\ pc[p] = "lru_get"
  /\ cacheMu.writer = Nil
  /\ IF flattenDirPath(path[p]) \notin isPresent
     THEN /\ err' = [err EXCEPT ![p] = ErrNotFoundCache]
          /\ pc' = [pc EXCEPT ![p] = "get_done"]
          /\ UNCHANGED cacheMu
     ELSE /\ pc' = [pc EXCEPT ![p] = "lru_get_promote"]
          /\ RLock(p)
          /\ UNCHANGED err
  /\ UNCHANGED <<cacheVars, queueMu, path, buf, evicted, reqVars, histVars,
                 fsVars, utilVars, walkVars>>

\* lruCache.promote: lru.queueMu.Lock()
LruPromoteLock(p) ==
  /\ pc[p] \in {"lru_get_promote", "lru_put_promote"}
  /\ queueMu = Nil
  /\ queueMu' = p
  /\ pc' = [pc EXCEPT ![p] = IF pc[p] = "lru_get_promote"
                              THEN "lru_get_promoting" ELSE "lru_put_promoting"]
  /\ UNCHANGED <<cacheVars, cacheMu, path, buf, err, evicted, reqVars, histVars,
                 fsVars, utilVars, walkVars>>

\* lruCache.Get: _ = lru.promote(flatPath), the evicted key ignored.
LruGetPromote(p) ==
  /\ pc[p] = "lru_get_promoting"
  /\ queueMu = p
  /\ queue' = promote(queue, flattenDirPath(path[p]), capacity).queue
  /\ touched' = Touch(touched, flattenDirPath(path[p]))
  /\ fresh' = Stale(fresh, promote(queue, flattenDirPath(path[p]), capacity).evicted)
  /\ readmitted' = Reread(readmitted, flattenDirPath(path[p]),
                          promote(queue, flattenDirPath(path[p]), capacity).evicted)
  /\ queueMu' = Nil
  /\ pc' = [pc EXCEPT ![p] = "lru_get_read"]
  /\ UNCHANGED <<policy, status, capacity, byteLimit, byteCount, isPresent, ssd,
                 cacheMu, path, buf, err, evicted, reqVars, admitted, refused,
                 accepted, settled, fsVars, utilVars, walkVars>>

\* lruCache.Get: os.ReadFile of the payload, then the deferred RUnlock.
LruGetRead(p) ==
  /\ pc[p] = "lru_get_read"
  /\ \E failed \in BOOLEAN :
       IF ssd[flattenDirPath(path[p])] = NoFile
       THEN /\ err' = [err EXCEPT ![p] = ErrNotFoundCache]
            /\ UNCHANGED buf
       ELSE IF failed
       THEN /\ err' = [err EXCEPT ![p] = ErrIO]
            /\ UNCHANGED buf
       ELSE /\ err' = [err EXCEPT ![p] = Nil]
            /\ buf' = [buf EXCEPT ![p] = ssd[flattenDirPath(path[p])][1]]
  /\ RUnlock(p)
  /\ pc' = [pc EXCEPT ![p] = "get_done"]
  /\ UNCHANGED <<cacheVars, queueMu, path, evicted, reqVars, histVars, fsVars, utilVars, walkVars>>

\* lruCache.Put going on to promote the key although os.WriteFile failed.
LruPutWriteIgnoringError(p) ==
  /\ pc[p] = "lru_put"
  /\ Lock(p)
  /\ \E failed \in BOOLEAN :
       ssd' = IF failed THEN ssd
              ELSE [ssd EXCEPT ![flattenDirPath(path[p])] = Some(buf[p])]
  /\ pc' = [pc EXCEPT ![p] = "lru_put_promote"]
  /\ UNCHANGED <<policy, status, capacity, byteLimit, byteCount, isPresent, queue,
                 queueMu, path, buf, err, evicted, reqVars, histVars, fsVars, utilVars, walkVars>>

\* lruCache.Put: lru.cacheMu.Lock() and os.WriteFile; a failed write returns
\* the error (the deferred Unlock runs on return).
LruPutWrite(p) ==
  /\ pc[p] = "lru_put"
  /\ \E failed \in BOOLEAN :
       IF failed
       THEN /\ cacheMu.writer = Nil /\ cacheMu.readers = {}
            /\ err' = [err EXCEPT ![p] = ErrIO]
            /\ pc' = [pc EXCEPT ![p] = "put_done"]
            /\ UNCHANGED <<ssd, cacheMu>>
       ELSE /\ Lock(p)
            /\ ssd' = [ssd EXCEPT ![flattenDirPath(path[p])] = Some(buf[p])]
            /\ pc' = [pc EXCEPT ![p] = "lru_put_promote"]
            /\ UNCHANGED err
  /\ UNCHANGED <<policy, status, capacity, byteLimit, byteCount, isPresent, queue,
                 queueMu, path, buf, evicted, reqVars, histVars, fsVars, utilVars, walkVars>>

\* lruCache.Put: evicted := lru.promote(flatPath)
LruPutPromote(p) ==
  /\ pc[p] = "lru_put_promoting"
  /\ queueMu = p
  /\ LET r == promote(queue, flattenDirPath(path[p]), capacity)
     IN  /\ queue' = r.queue
         /\ evicted' = [evicted EXCEPT ![p] = r.evicted]
         /\ fresh' = Stale(fresh, r.evicted)
         /\ readmitted' = Readmit(readmitted, queue, touched,
                                  flattenDirPath(path[p]), r.evicted)
  /\ touched' = Touch(touched, flattenDirPath(path[p]))
  /\ queueMu' = Nil
  /\ pc' = [pc EXCEPT ![p] = "lru_put_update"]
  /\ UNCHANGED <<policy, status, capacity, byteLimit, byteCount, isPresent, ssd,
                 cacheMu, path, buf, err, reqVars, admitted, refused, accepted,
                 settled, fsVars, utilVars, walkVars>>

\* The membership index after lruCache.Put's if/else on the evicted key.
LruPutIndex(present, key, ev) ==
  IF ev # None THEN present \ {ev[1]} ELSE present \cup {key}

\* lruCache.Put: the update of isPresent, return nil and the deferred Unlock.
LruPutUpdate(p) ==
  /\ pc[p] = "lru_put_update"
  /\ isPresent' = LruPutIndex(isPresent, flattenDirPath(path[p]), evicted[p])
  /\ err' = [err EXCEPT ![p] = Nil]
  /\ Unlock(p)
  /\ pc' = [pc EXCEPT ![p] = "put_done"]
  /\ UNCHANGED <<policy, status, capacity, byteLimit, byteCount, queue, ssd,
                 queueMu, path, buf, evicted, reqVars, histVars, fsVars, utilVars, walkVars>>

\* ------------------------------------------------------------------ sizeLimitedCache

\* NewSizeLimitedCache(ssdBasePath, byteLimit)
NewSizeLimitedCache(limit) ==
  /\ status = "unbuilt"
  /\ policy' = "size"
  /\ status' = "ready"
  /\ byteLimit' = limit
  /\ UNCHANGED <<capacity, byteCount, isPresent, queue, ssd, lockVars, procVars,
                 reqVars, histVars, fsVars, utilVars, walkVars>>

\* sizeLimitedCache.Get: s.cacheMu.RLock() and the membership test, which
\* returns ErrNotFoundCache on a miss (the deferred RUnlock runs on return).
SizeGetCheck(p) ==
  /\ pc[p] = "size_get"
  /\ cacheMu.writer = Nil
  /\ IF flattenDirPath(path[p]) \notin isPresent
     THEN /\ err' = [err EXCEPT ![p] = ErrNotFoundCache]
          /\ pc' = [pc EXCEPT ![p] = "get_done"]
          /\ UNCHANGED cacheMu
     ELSE /\ pc' = [pc EXCEPT ![p] = "size_get_read"]
          /\ RLock(p)
          /\ UNCHANGED err
  /\ UNCHANGED <<cacheVars, queueMu, path, buf, evicted, reqVars, histVars,
                 fsVars, utilVars, walkVars>>

\* sizeLimitedCache.Get: os.ReadFile of the payload, then the deferred RUnlock.
SizeGetRead(p) ==
  /\ pc[p] = "size_get_read"
  /\ \E failed \in BOOLEAN :
       IF ssd[flattenDirPath(path[p])] = NoFile
       THEN /\ err' = [err EXCEPT ![p] = ErrNotFoundCache]
            /\ UNCHANGED buf
       ELSE IF failed
       THEN /\ err' = [err EXCEPT ![p] = ErrIO]
            /\ UNCHANGED buf
       ELSE /\ err' = [err EXCEPT ![p] = Nil]
            /\ buf' = [buf EXCEPT ![p] = ssd[flattenDirPath(path[p])][1]]
  /\ RUnlock(p)
  /\ pc' = [pc EXCEPT ![p] = "get_done"]
  /\ UNCHANGED <<cacheVars, queueMu, path, evicted, reqVars, histVars, fsVars, utilVars, walkVars>>

\* The admission test with >= for >: a Put that fills the budget exactly is refused.
sizeRefusesAtLimit(count, dataLen, limit) == count + dataLen >= limit

\* The admission test on the size of the file alone, the running total ignored.
sizeRefusesPerFile(count, dataLen, limit) == dataLen > limit

\* sizeLimitedCache.Put: s.byteCount+dataLen > s.byteLimit
sizeRefuses(count, dataLen, limit) == count + dataLen > limit

\* The admission test made without taking s.cacheMu.
SizePutCheckUnlocked(p) ==
  /\ pc[p] = "size_put"
  /\ IF sizeRefuses(byteCount, Len(buf[p]), byteLimit)
     THEN /\ err' = [err EXCEPT ![p] = ErrWontCache]
          /\ pc' = [pc EXCEPT ![p] = "put_done"]
          /\ refused' = refused \cup {Len(buf[p])}
     ELSE /\ pc' = [pc EXCEPT ![p] = "size_put_write"]
          /\ UNCHANGED <<err, refused>>
  /\ UNCHANGED <<readmitted, cacheVars, lockVars, path, buf, evicted, reqVars, touched,
                 admitted, accepted, settled, fresh, fsVars, utilVars, walkVars>>

\* sizeLimitedCache.Put: s.cacheMu.Lock() and the admission test, which returns
\* ErrWontCache over budget (the deferred Unlock runs on return).
SizePutCheck(p) ==
  /\ pc[p] = "size_put"
  /\ cacheMu.writer = Nil /\ cacheMu.readers = {}
  /\ IF sizeRefuses(byteCount, Len(buf[p]), byteLimit)
     THEN /\ err' = [err EXCEPT ![p] = ErrWontCache]
          /\ pc' = [pc EXCEPT ![p] = "put_done"]
          /\ refused' = refused \cup {Len(buf[p])}
          /\ UNCHANGED cacheMu
     ELSE /\ pc' = [pc EXCEPT ![p] = "size_put_write"]
          /\ Lock(p)
          /\ UNCHANGED <<err, refused>>
  /\ UNCHANGED <<readmitted, cacheVars, queueMu, path, buf, evicted, reqVars, touched,
                 admitted, accepted, settled, fresh, fsVars, utilVars, walkVars>>

\* The byte total after an accepted Put that charges only the growth of a
\* payload it replaces.
sizeChargeReplacing(count, old, dataLen) ==
  IF old = NoFile THEN count + dataLen ELSE count - Len(old[1]) + dataLen

\* sizeLimitedCache.Put: s.byteCount += dataLen, whatever the key held before.
sizeCharge(count, old, dataLen) == count + dataLen

\* sizeLimitedCache.Put: os.WriteFile, then isPresent and byteCount, return
\* nil.  os.WriteFile opens with O_CREATE|O_TRUNC and then writes: a failed
\* open leaves the directory as it was, a failed write leaves the file empty,
\* and both return the error.  The deferred Unlock runs on return.
SizePutWrite(p) ==
  /\ pc[p] = "size_put_write"
  /\ \E outcome \in {"written", "open failed", "write failed"} :
       IF outcome = "written"
       THEN /\ ssd' = [ssd EXCEPT ![flattenDirPath(path[p])] = Some(buf[p])]
            /\ isPresent' = isPresent \cup {flattenDirPath(path[p])}
            /\ byteCount' = sizeCharge(byteCount, ssd[flattenDirPath(path[p])],
                                       Len(buf[p]))
            /\ admitted' = admitted + Len(buf[p])
            /\ accepted' = accepted \cup {flattenDirPath(path[p])}
            /\ err' = [err EXCEPT ![p] = Nil]
       ELSE /\ ssd' = IF outcome = "open failed" THEN ssd
                      ELSE [ssd EXCEPT ![flattenDirPath(path[p])] = Some(NoBytes)]
            /\ err' = [err EXCEPT ![p] = ErrIO]
            /\ UNCHANGED <<isPresent, byteCount, admitted, accepted>>
  /\ Unlock(p)
  /\ pc' = [pc EXCEPT ![p] = "put_done"]
  /\ UNCHANGED <<readmitted, policy, status, capacity, byteLimit, queue, queueMu, path, buf,
                 evicted, reqVars, touched, refused, settled, fresh, fsVars, utilVars, walkVars>>

\* ------------------------------------------------------------------ defaultCache

\* NewDefaultCache(ssdBasePath)
NewDefaultCache ==
  /\ status = "unbuilt"
  /\ policy' = "default"
  /\ status' = "ready"
  /\ UNCHANGED <<capacity, byteLimit, byteCount, isPresent, queue, ssd, lockVars,
                 procVars, reqVars, histVars, fsVars, utilVars, walkVars>>

\* defaultCache.Get: os.ReadFile, ErrNotFoundCache when the file does not exist.
DefGet(p) ==
  /\ pc[p] = "def_get"
  /\ \E failed \in BOOLEAN :
       IF ssd[flattenDirPath(path[p])] = NoFile
       THEN /\ err' = [err EXCEPT ![p] = ErrNotFoundCache]
            /\ UNCHANGED buf
       ELSE IF failed
       THEN /\ err' = [err EXCEPT ![p] = ErrIO]
            /\ UNCHANGED buf
       ELSE /\ err' = [err EXCEPT ![p] = Nil]
            /\ buf' = [buf EXCEPT ![p] = ssd[flattenDirPath(path[p])][1]]
  /\ pc' = [pc EXCEPT ![p] = "get_done"]
  /\ UNCHANGED <<cacheVars, lockVars, path, evicted, reqVars, histVars, fsVars, utilVars, walkVars>>

\* The directory after a Put opened key's file in a cache that keeps a single
\* file: every other file is removed.
defOpenedSingleFile(files, key) ==
  [k \in DOMAIN files |-> IF k = key THEN Some(NoBytes) ELSE NoFile]

\* The directory after os.WriteFile opened key's file with O_CREATE|O_TRUNC:
\* that file is empty, every other file is as it was.
defOpened(files, key) == [files EXCEPT ![key] = Some(NoBytes)]

\* defaultCache.Put: os.WriteFile opens the file with O_CREATE|O_TRUNC, which
\* leaves it empty; a failed open returns the error.
DefPutOpen(p) ==
  /\ pc[p] = "def_put"
  /\ \E failed \in BOOLEAN :
       IF failed
       THEN /\ err' = [err EXCEPT ![p] = ErrIO]
            /\ pc' = [pc EXCEPT ![p] = "put_done"]
            /\ UNCHANGED <<ssd, settled>>
       ELSE /\ ssd' = defOpened(ssd, flattenDirPath(path[p]))
            /\ settled' = [settled EXCEPT ![flattenDirPath(path[p])] = None]
            /\ pc' = [pc EXCEPT ![p] = "def_put_write"]
            /\ UNCHANGED err
  /\ UNCHANGED <<readmitted, policy, status, capacity, byteLimit, byteCount, isPresent, queue,
                 lockVars, path, buf, evicted, reqVars, touched, admitted,
                 refused, accepted, fresh, fsVars, utilVars, walkVars>>

\* defaultCache.Put: os.WriteFile writes the data and closes the file; a failed
\* write returns the error and leaves the file as it is.
DefPutWrite(p) ==
  /\ pc[p] = "def_put_write"
  /\ \E failed \in BOOLEAN :
       IF failed
       THEN /\ err' = [err EXCEPT ![p] = ErrIO]
            /\ UNCHANGED <<ssd, settled>>
       ELSE /\ ssd' = [ssd EXCEPT ![flattenDirPath(path[p])] = Some(buf[p])]
            /\ settled' = [settled EXCEPT ![flattenDirPath(path[p])] =
                                            Some(buf[p])]
            /\ err' = [err EXCEPT ![p] = Nil]
  /\ pc' = [pc EXCEPT ![p] = "put_done"]
  /\ UNCHANGED <<readmitted, policy, status, capacity, byteLimit, byteCount, isPresent, queue,
                 lockVars, path, buf, evicted, reqVars, touched, admitted,
                 refused, accepted, fresh, fsVars, utilVars, walkVars>>

\* ------------------------------------------------------------------ node.go

\* filepath.Join(parent, name) of two relative paths.
Join(parent, name) ==
  IF parent = << >> THEN name ELSE parent \o <<"/">> \o name

\* fuseFSNode.relPath()
relPath(n) == Join(n.parentPathRel, n.Name)

\* The nodes of the tree: the files a, d/c and d$c and the directory d.
Nodes ==
  { [parentPathRel |-> << >>, Name |-> <<"a">>],
    [parentPathRel |-> << >>, Name |-> <<"d">>],
    [parentPathRel |-> <<"d">>, Name |-> <<"c">>],
    [parentPathRel |-> << >>, Name |-> <<"d", "$", "c">>] }

\* The backing store: whether the entry at a path is a directory, and the
\* bytes of a file.
NfsIsDir(pth) == pth = <<"d">>
NfsContent(pth) ==
  IF pth = <<"a">> THEN <<1>>
  ELSE IF pth = <<"d", "/", "c">> THEN <<2, 2>>
  ELSE IF pth = <<"d", "$", "c">> THEN <<3, 3, 3>>
  ELSE NoBytes

Logged(p, line) == log' = [log EXCEPT ![p] = Append(@, line)]

\* The request of goroutine p makes the calls cs, in order.
Called(p, cs) == calls' = [calls EXCEPT ![p] = @ \o cs]

\* fuseFSNode.data without the fi.IsDir() test: a directory goes on to
\* Cache.Get like a file.
DataStatNoDirTest(p, n) ==
  /\ status = "ready"
  /\ pc[p] = "idle"
  /\ path' = [path EXCEPT ![p] = relPath(n)]
  /\ \E failed \in BOOLEAN :
       IF failed
       THEN /\ res' = [res EXCEPT ![p] = [bytes |-> NoBytes, err |-> "ENOENT"]]
            /\ pc' = [pc EXCEPT ![p] = "data_done"]
            /\ UNCHANGED calls
       ELSE /\ pc' = [pc EXCEPT ![p] = GetEntry[policy]]
            /\ Called(p, <<"Cache.Get">>)
            /\ UNCHANGED res
  /\ UNCHANGED <<cacheVars, lockVars, buf, err, evicted, nfsData, log, histVars,
                 fsVars, utilVars, walkVars>>

\* fuseFSNode.data: n.stat(), the error or EISDIR returned at once; otherwise
\* the call of n.FS.ssdCache.Get(n.relPath()).
DataStat(p, n) ==
  /\ status = "ready"
  /\ pc[p] = "idle"
  /\ path' = [path EXCEPT ![p] = relPath(n)]
  /\ \E failed \in BOOLEAN :
       IF failed
       THEN /\ res' = [res EXCEPT ![p] = [bytes |-> NoBytes, err |-> "ENOENT"]]
            /\ pc' = [pc EXCEPT ![p] = "data_done"]
            /\ UNCHANGED calls
       ELSE IF NfsIsDir(relPath(n))
       THEN /\ res' = [res EXCEPT ![p] = [bytes |-> NoBytes, err |-> "EISDIR"]]
            /\ pc' = [pc EXCEPT ![p] = "data_done"]
            /\ UNCHANGED calls
       ELSE /\ pc' = [pc EXCEPT ![p] = GetEntry[policy]]
            /\ Called(p, <<"Cache.Get">>)
            /\ UNCHANGED res
  /\ UNCHANGED <<cacheVars, lockVars, buf, err, evicted, nfsData, log, histVars,
                 fsVars, utilVars, walkVars>>

\* fuseFSNode.data without the return in the hit branch: a hit is logged and
\* the request goes on to the backing store all the same.
DataAfterGetFallingThrough(p) ==
  /\ pc[p] = "get_done"
  /\ Logged(p, IF err[p] = Nil THEN "CACHE_HIT"
               ELSE "WARNING: Error reading from SSD cache")
  /\ pc' = [pc EXCEPT ![p] = "data_nfs"]
  /\ UNCHANGED <<cacheVars, lockVars, path, buf, err, evicted, res, nfsData,
                 calls, histVars, fsVars, utilVars, walkVars>>

\* fuseFSNode.data: a hit returns the cached bytes; any error goes on to the
\* backing store, with a warning unless it is ErrNotFoundCache.
DataAfterGet(p) ==
  /\ pc[p] = "get_done"
  /\ IF err[p] = Nil
     THEN /\ Logged(p, "CACHE_HIT")
          /\ res' = [res EXCEPT ![p] = [bytes |-> buf[p], err |-> Nil]]
          /\ pc' = [pc EXCEPT ![p] = "data_done"]
     ELSE /\ IF err[p] # ErrNotFoundCache
             THEN Logged(p, "WARNING: Error reading from SSD cache")
             ELSE UNCHANGED log
          /\ pc' = [pc EXCEPT ![p] = "data_nfs"]
          /\ UNCHANGED res
  /\ UNCHANGED <<cacheVars, lockVars, path, buf, err, evicted, nfsData, calls,
                 histVars, fsVars, utilVars, walkVars>>

\* The result of fuseFSNode.data once Cache.Put has returned putErr.
dataResultFailingOnPut(data, putErr) ==
  IF putErr = Nil \/ putErr = ErrWontCache
  THEN [bytes |-> data, err |-> Nil]
  ELSE [bytes |-> NoBytes, err |-> "EIO"]

\* fuseFSNode.data: return nfsData, nil whatever Cache.Put returned.
dataResult(data, putErr) == [bytes |-> data, err |-> Nil]

\* fuseFSNode.data without the return in the error branch: a failed read of the
\* backing store is logged and its empty result is put into the cache.
DataNfsReadCachingFailure(p) ==
  /\ pc[p] = "data_nfs"
  /\ \E failed \in BOOLEAN :
       /\ Logged(p, IF failed THEN "ERROR: Failed to read from NFS" ELSE "NFS_READ")
       /\ nfsData' = [nfsData EXCEPT ![p] =
                        IF failed THEN NoBytes ELSE NfsContent(path[p])]
       /\ buf' = [buf EXCEPT ![p] = IF failed THEN NoBytes ELSE NfsContent(path[p])]
  /\ Called(p, <<"os.ReadFile", "Cache.Put">>)
  /\ pc' = [pc EXCEPT ![p] = PutEntry[policy]]
  /\ UNCHANGED <<cacheVars, lockVars, path, err, evicted, res, histVars,
                 fsVars, utilVars, walkVars>>

\* fuseFSNode.data: time.Sleep(nfsFileReadDelay) and os.ReadFile of the backing
\* store; a failure returns EIO, a success calls n.FS.ssdCache.Put.
DataNfsRead(p) ==
  /\ pc[p] = "data_nfs"
  /\ \E failed \in BOOLEAN :
       IF failed
       THEN /\ Logged(p, "ERROR: Failed to read from NFS")
            /\ res' = [res EXCEPT ![p] = [bytes |-> NoBytes, err |-> "EIO"]]
            /\ pc' = [pc EXCEPT ![p] = "data_done"]
            /\ Called(p, <<"os.ReadFile">>)
            /\ UNCHANGED <<nfsData, buf, fresh>>
       ELSE /\ Logged(p, "NFS_READ")
            /\ Called(p, <<"os.ReadFile", "Cache.Put">>)
            /\ nfsData' = [nfsData EXCEPT ![p] = NfsContent(path[p])]
            /\ buf' = [buf EXCEPT ![p] = NfsContent(path[p])]
            /\ pc' = [pc EXCEPT ![p] = PutEntry[policy]]
            /\ fresh' = [pth \in DOMAIN fresh |->
                           IF pth # path[p] /\ flattenDirPath(pth) = flattenDirPath(path[p])
                           THEN None ELSE fresh[pth]]
            /\ UNCHANGED res
  /\ UNCHANGED <<readmitted, cacheVars, lockVars, path, err, evicted, touched, admitted,
                 refused, accepted, settled, fsVars, utilVars, walkVars>>

\* fuseFSNode.data: the outcome of Cache.Put is logged, and nfsData returned.
DataAfterPut(p) ==
  /\ pc[p] = "put_done"
  /\ Logged(p, IF err[p] = ErrWontCache THEN "WARNING: Cache refuse to write file"
               ELSE IF err[p] # Nil THEN "ERROR: Failed to write to cache"
               ELSE "CACHE_LOADED")
  /\ res' = [res EXCEPT ![p] = dataResult(nfsData[p], err[p])]
  /\ pc' = [pc EXCEPT ![p] = "data_done"]
  /\ UNCHANGED <<cacheVars, lockVars, path, buf, err, evicted, nfsData, calls,
                 histVars, fsVars, utilVars, walkVars>>

\* fuseFSNode.Read hands the result to the FUSE server; the locals go out of scope.
DataReturn(p) ==
  /\ pc[p] = "data_done"
  /\ pc' = [pc EXCEPT ![p] = "idle"]
  /\ path' = [path EXCEPT ![p] = << >>]
  /\ buf' = [buf EXCEPT ![p] = NoBytes]
  /\ err' = [err EXCEPT ![p] = Nil]
  /\ evicted' = [evicted EXCEPT ![p] = None]
  /\ res' = [res EXCEPT ![p] = NoResult]
  /\ nfsData' = [nfsData EXCEPT ![p] = NoBytes]
  /\ log' = [log EXCEPT ![p] = << >>]
  /\ calls' = [calls EXCEPT ![p] = << >>]
  /\ fresh' = [fresh EXCEPT ![path[p]] =
                 IF \E i \in 1..Len(log[p]) : log[p][i] = "CACHE_LOADED"
                 THEN Some(res[p].bytes) ELSE None]
  /\ UNCHANGED <<readmitted, cacheVars, lockVars, touched, admitted, refused, accepted,
                 settled, fsVars, utilVars, walkVars>>

\* ------------------------------------------------------------------ node graph

\* main.go: perm_READEXECUTE = 0o500, perm_READ = 0o400.
perm_READEXECUTE == 320
perm_READ == 256

\* An os.FileMode: the os.ModeDir bit and the permission bits.
FileMode(dir, perm) == [dir |-> dir, perm |-> perm]

\* NewFuseFSNode(fs, name, parentPathRel, inode, mode, isDir); Children is nil.
NewFuseFSNode(name, parentPathRel, inode, mode, isDir) ==
  [Name |-> name, parentPathRel |-> parentPathRel, Inode |-> inode,
   Mode |-> mode, isDir |-> isDir, Children |-> << >>]

\* parent.Children = append(parent.Children, currentNode), the new node taking
\* the next index of the graph t.
AppendChild(t, parent, node) ==
  Append([t EXCEPT ![parent].Children = Append(@, Len(t) + 1)], node)

\* The node graph of the backing store of Nodes: the root, then a, d, d/c and
\* d$c in the order of a pre-order walk that lists each directory by name.
ServedTree ==
  LET root == << NewFuseFSNode(<< >>, << >>, 2, FileMode(TRUE, perm_READ), TRUE) >>
      t2 == AppendChild(root, 1, NewFuseFSNode(<<"a">>, << >>, 3,
                          FileMode(FALSE, perm_READEXECUTE), FALSE))
      t3 == AppendChild(t2, 1, NewFuseFSNode(<<"d">>, << >>, 4,
                          FileMode(TRUE, perm_READEXECUTE), TRUE))
      t4 == AppendChild(t3, 3, NewFuseFSNode(<<"c">>, <<"d">>, 5,
                          FileMode(FALSE, perm_READEXECUTE), FALSE))
  IN  AppendChild(t4, 1, NewFuseFSNode(<<"d", "$", "c">>, << >>, 6,
                          FileMode(FALSE, perm_READEXECUTE), FALSE))

\* The node graph of a backing store that holds the directory b with the file
\* b/c, and the file c: the root, then b, b/c and c in the order of a pre-order
\* walk that lists each directory by name.
ShadowTree ==
  LET root == << NewFuseFSNode(<< >>, << >>, 2, FileMode(TRUE, perm_READ), TRUE) >>
      t2 == AppendChild(root, 1, NewFuseFSNode(<<"b">>, << >>, 3,
                          FileMode(TRUE, perm_READEXECUTE), TRUE))
      t3 == AppendChild(t2, 2, NewFuseFSNode(<<"c">>, <<"b">>, 4,
                          FileMode(FALSE, perm_READEXECUTE), FALSE))
  IN  AppendChild(t3, 1, NewFuseFSNode(<<"c">>, << >>, 5,
                          FileMode(FALSE, perm_READEXECUTE), FALSE))

\* The names a Lookup request asks for: names of the graph and one of no node.
Names == { <<"a">>, <<"c">>, <<"d">>, <<"x">> }

\* No Lookup or ReadDirAll request.
NoFound == [op |-> "none", node |-> 0, name |-> << >>, result |-> None, ents |-> << >>]

\* fuseFSNode.Lookup over the child list kids: the first child of that name,
\* and, at a child directory of another name, the result of that directory's
\* own Lookup if it finds one; None stands for ENOENT.
RECURSIVE lookupChildren(_, _, _)
lookupChildren(t, kids, name) ==
  IF kids = << >> THEN None
  ELSE LET n == Head(kids)
           below == IF t[n].Mode.dir
                    THEN lookupChildren(t, t[n].Children, name) ELSE None
       IN  IF t[n].Name = name THEN Some(n)
           ELSE IF below # None THEN below
           ELSE lookupChildren(t, Tail(kids), name)

\* fuseFSNode.ReadDirAll's result: one fuse.Dirent per child, in order.
Dirents(t, kids) ==
  [i \in 1..Len(kids) |->
     [Inode |-> t[kids[i]].Inode,
      Type |-> IF t[kids[i]].Mode.dir THEN "DT_Dir" ELSE "DT_File",
      Name |-> t[kids[i]].Name]]

\* fuseFSNode.Lookup(ctx, name) on node n.
Lookup(p, n, name) ==
  /\ status = "ready"
  /\ pc[p] = "idle"
  /\ pc' = [pc EXCEPT ![p] = "lookup_done"]
  /\ found' = [found EXCEPT ![p] =
                 [op |-> "Lookup", node |-> n, name |-> name,
                  result |-> lookupChildren(tree, tree[n].Children, name),
                  ents |-> << >>]]
  /\ UNCHANGED <<cacheVars, lockVars, path, buf, err, evicted, reqVars, histVars,
                 tree, nfs, lastInode, fsStatus, utilVars, walkVars>>

\* ReadDirAll that reverses n.Children in place before listing them.
ReadDirAllReversing(p, n) ==
  /\ status = "ready"
  /\ pc[p] = "idle"
  /\ pc' = [pc EXCEPT ![p] = "readdir_done"]
  /\ tree' = [tree EXCEPT ![n].Children =
                 [i \in 1..Len(@) |-> @[Len(@) + 1 - i]]]
  /\ found' = [found EXCEPT ![p] =
                 [op |-> "ReadDirAll", node |-> n, name |-> << >>,
                  result |-> None, ents |-> Dirents(tree', tree'[n].Children)]]
  /\ UNCHANGED <<cacheVars, lockVars, path, buf, err, evicted, reqVars, histVars,
                 nfs, lastInode, fsStatus, utilVars, walkVars>>

\* fuseFSNode.ReadDirAll(ctx) on node n.
ReadDirAll(p, n) ==
  /\ status = "ready"
  /\ pc[p] = "idle"
  /\ pc' = [pc EXCEPT ![p] = "readdir_done"]
  /\ found' = [found EXCEPT ![p] =
                 [op |-> "ReadDirAll", node |-> n, name |-> << >>,
                  result |-> None, ents |-> Dirents(tree, tree[n].Children)]]
  /\ UNCHANGED <<cacheVars, lockVars, path, buf, err, evicted, reqVars, histVars,
                 tree, nfs, lastInode, fsStatus, utilVars, walkVars>>

\* n.stat() of the node at index n: what os.Stat tells of the backing store's
\* entry, the NFS directory itself for the root.
StatOf(n) ==
  LET rp == relPath(tree[n])
  IN  [isDir |-> rp = << >> \/ NfsIsDir(rp), size |-> Len(NfsContent(rp))]

\* Attr taking the size of a file from its payload in the SSD directory when
\* there is one, and from the backing store otherwise.
AttrFromCache(p, n) ==
  /\ status = "ready"
  /\ pc[p] = "idle"
  /\ pc' = [pc EXCEPT ![p] = "attr_done"]
  /\ \E failed \in BOOLEAN :
       found' = [found EXCEPT ![p] =
         [op |-> "Attr", node |-> n, name |-> << >>, ents |-> << >>,
          result |->
            IF failed THEN None
            ELSE LET key == flattenDirPath(relPath(tree[n]))
                 IN  Some([Inode |-> tree[n].Inode, Mode |-> tree[n].Mode,
                           Size |-> IF StatOf(n).isDir THEN 0
                                    ELSE IF key \in DOMAIN ssd /\ ssd[key] # NoFile
                                    THEN Len(ssd[key][1])
                                    ELSE StatOf(n).size])]]
  /\ UNCHANGED <<cacheVars, lockVars, path, buf, err, evicted, reqVars, histVars,
                 tree, nfs, lastInode, fsStatus, utilVars, walkVars>>

\* fuseFSNode.Attr(ctx, attr) on node n: the inode and mode of the node, and,
\* unless n.stat() fails (None stands for the error returned) or tells of a
\* directory, the size that n.stat() gives; attr.Size is zero otherwise.
Attr(p, n) ==
  /\ status = "ready"
  /\ pc[p] = "idle"
  /\ pc' = [pc EXCEPT ![p] = "attr_done"]
  /\ \E failed \in BOOLEAN :
       found' = [found EXCEPT ![p] =
         [op |-> "Attr", node |-> n, name |-> << >>, ents |-> << >>,
          result |->
            IF failed THEN None
            ELSE Some([Inode |-> tree[n].Inode, Mode |-> tree[n].Mode,
                       Size |-> IF StatOf(n).isDir THEN 0
                                ELSE StatOf(n).size])]]
  /\ UNCHANGED <<cacheVars, lockVars, path, buf, err, evicted, reqVars, histVars,
                 tree, nfs, lastInode, fsStatus, utilVars, walkVars>>

\* The FUSE server has the answer of Attr.
AttrReturn(p) ==
  /\ pc[p] = "attr_done"
  /\ pc' = [pc EXCEPT ![p] = "idle"]
  /\ found' = [found EXCEPT ![p] = NoFound]
  /\ UNCHANGED <<cacheVars, lockVars, path, buf, err, evicted, reqVars, histVars,
                 tree, nfs, lastInode, fsStatus, utilVars, walkVars>>

\* The FUSE server has the answer of Lookup or ReadDirAll.
NodeReturn(p) ==
  /\ pc[p] \in {"lookup_done", "readdir_done"}
  /\ pc' = [pc EXCEPT ![p] = "idle"]
  /\ found' = [found EXCEPT ![p] = NoFound]
  /\ UNCHANGED <<cacheVars, lockVars, path, buf, err, evicted, reqVars, histVars,
                 tree, nfs, lastInode, fsStatus, utilVars, walkVars>>

\* ------------------------------------------------------------------ fs.go

\* fuseFS.nfsBaseAbs: the absolute path of the NFS directory.
nfsBaseAbs == <<"/", "n">>

\* The root that loadFSTree hands to filepath.WalkDir: the empty string.
WalkRoot == << >>

\* The absolute path of the backing-store entry at relative path rel.
AbsPath(rel) == nfsBaseAbs \o <<"/">> \o rel

\* The entry names of this model in the order os.ReadDir sorts them.
ByName == << <<"a">>, <<"c">>, <<"d">>, <<"d", "$", "c">> >>

\* The index of the last separator of pth, 0 if it has none.
LastSlash(pth) ==
  LET I == { i \in 1..Len(pth) : pth[i] = "/" }
  IN  IF I = {} THEN 0 ELSE CHOOSE i \in I : \A j \in I : j <= i

\* filepath.Dir(pth)
Dir(pth) ==
  IF LastSlash(pth) = 0 THEN <<".">>
  ELSE IF LastSlash(pth) = 1 THEN <<"/">>
  ELSE SubSeq(pth, 1, LastSlash(pth) - 1)

\* filepath.Base(pth), for a path that does not end in a separator.
Base(pth) == SubSeq(pth, LastSlash(pth) + 1, Len(pth))

\* filepath.Rel(base, target) with its error dropped: "." for the base
\* itself, the rest of a path below base, and the empty string that comes
\* with the error when target is a relative path.
Rel(base, target) ==
  IF target = base THEN <<".">>
  ELSE IF /\ Len(target) > Len(base) + 1
          /\ SubSeq(target, 1, Len(base) + 1) = base \o <<"/">>
  THEN SubSeq(target, Len(base) + 2, Len(target))
  ELSE << >>

\* os.Lstat(pth) succeeds: the empty path names nothing.
Exists(store, pth) ==
  \/ store.nfsDir /\ pth = nfsBaseAbs
  \/ \E e \in store.entries : pth = AbsPath(e)

\* The entry at the absolute path pth is a directory.
IsDirAbs(pth) ==
  \/ pth = nfsBaseAbs
  \/ \E e \in { relPath(n) : n \in Nodes } : pth = AbsPath(e) /\ NfsIsDir(e)

\* os.ReadDir(pth) fails (permission denied).
ReadDirFails(store, pth) == \E e \in store.denied : pth = AbsPath(e)

\* os.ReadDir(pth): the names of the directory's entries, sorted.
ReadDir(store, pth) ==
  SelectSeq(ByName, LAMBDA nm :
    \E e \in store.entries : AbsPath(e) = pth \o <<"/">> \o nm)

\* GenerateInode without the increment: return rfs.lastInode
GenerateInodeStuck(last) == last

\* fuseFS.GenerateInode: rfs.lastInode++; return rfs.lastInode (a uint64 that
\* the builder's MaxNodes calls keep far from wrapping).
GenerateInode(last) == last + 1

\* The callback hanging an entry whose parent it cannot resolve under the root
\* node instead of returning the error.
visitAdoptingOrphans(st, cur, d, e) ==
  IF e # Nil
  THEN [st |-> [st EXCEPT !.walkErrors = @ \cup {cur}],
        ret |-> IF d # None /\ d[1].isDir THEN "SkipDir" ELSE e]
  ELSE IF cur = nfsBaseAbs THEN [st |-> st, ret |-> Nil]
  ELSE LET parentRelPath == Rel(nfsBaseAbs, Dir(cur))
           parent == IF parentRelPath \in DOMAIN st.nodesByRelPath
                     THEN st.nodesByRelPath[parentRelPath] ELSE 1
           inode == GenerateInode(st.lastInode)
           currentNode ==
             NewFuseFSNode(d[1].name, parentRelPath, inode,
                           FileMode(d[1].isDir, perm_READEXECUTE),
                           d[1].isDir)
       IN  [st |-> [tree |-> AppendChild(st.tree, parent, currentNode),
                    nodesByRelPath |->
                      IF d[1].isDir
                      THEN (parentRelPath :> Len(st.tree) + 1)
                             @@ st.nodesByRelPath
                      ELSE st.nodesByRelPath,
                    lastInode |-> inode,
                    walkErrors |-> st.walkErrors],
            ret |-> Nil]

\* The callback loadFSTree hands to filepath.WalkDir, on the builder's state
\* st = [tree, nodesByRelPath, lastInode, walkErrors]; d is Some([name, isDir])
\* or None for a nil DirEntry.  It returns the new state and nil, SkipDir or an
\* error.
visit(st, cur, d, e) ==
  IF e # Nil
  THEN [st |-> [st EXCEPT !.walkErrors = @ \cup {cur}],
        ret |-> IF d # None /\ d[1].isDir THEN "SkipDir" ELSE e]
  ELSE IF cur = nfsBaseAbs THEN [st |-> st, ret |-> Nil]
  ELSE LET parentRelPath == Rel(nfsBaseAbs, Dir(cur))
       IN  IF parentRelPath \notin DOMAIN st.nodesByRelPath
           THEN [st |-> st, ret |-> "parent node not found"]
           ELSE LET parent == st.nodesByRelPath[parentRelPath]
                    inode == GenerateInode(st.lastInode)
                    currentNode ==
                      NewFuseFSNode(d[1].name, parentRelPath, inode,
                                    FileMode(d[1].isDir, perm_READEXECUTE),
                                    d[1].isDir)
                IN  [st |-> [tree |-> AppendChild(st.tree, parent, currentNode),
                             nodesByRelPath |->
                               IF d[1].isDir
                               THEN (parentRelPath :> Len(st.tree) + 1)
                                      @@ st.nodesByRelPath
                               ELSE st.nodesByRelPath,
                             lastInode |-> inode,
                             walkErrors |-> st.walkErrors],
                     ret |-> Nil]

\* What walkDir returns for the callback's result r at the entry d.
Skipped(r, d) ==
  [st |-> r.st, ret |-> IF r.ret = "SkipDir" /\ d[1].isDir THEN Nil ELSE r.ret]

RECURSIVE walkDir(_, _, _, _)
RECURSIVE walkEntries(_, _, _, _)

\* filepath's walkDir(path, d, fn): the callback on the entry, a second call to
\* report a failed os.ReadDir, then the directory's entries in order.
walkDir(store, st, pth, d) ==
  LET first == visit(st, pth, d, Nil)
  IN  IF first.ret # Nil \/ ~d[1].isDir THEN Skipped(first, d)
      ELSE LET second == IF ReadDirFails(store, pth)
                         THEN visit(first.st, pth, d, "EACCES")
                         ELSE [st |-> first.st, ret |-> Nil]
           IN  IF second.ret # Nil THEN Skipped(second, d)
               ELSE walkEntries(store, second.st, pth,
                                IF ReadDirFails(store, pth) THEN << >>
                                ELSE ReadDir(store, pth))

\* walkDir's loop over the entries of a directory: SkipDir from an entry ends
\* the loop, any other error ends the walk.
walkEntries(store, st, pth, names) ==
  IF names = << >> THEN [st |-> st, ret |-> Nil]
  ELSE LET path1 == pth \o <<"/">> \o Head(names)
           r == walkDir(store, st, path1,
                        Some([name |-> Head(names), isDir |-> IsDirAbs(path1)]))
       IN  IF r.ret = "SkipDir" THEN [st |-> r.st, ret |-> Nil]
           ELSE IF r.ret # Nil THEN r
           ELSE walkEntries(store, r.st, pth, Tail(names))

\* filepath.WalkDir(root, fn): os.Lstat(root), whose error goes to the
\* callback with a nil DirEntry; SkipDir from the walk counts as success.
WalkDir(store, st, root) ==
  LET r == IF ~Exists(store, root) THEN visit(st, root, None, "ENOENT")
           ELSE walkDir(store, st, root,
                        Some([name |-> Base(root), isDir |-> IsDirAbs(root)]))
  IN  [st |-> r.st, ret |-> IF r.ret = "SkipDir" THEN Nil ELSE r.ret]

\* loadFSTree(fs): the root node, the walk, and the walk's error if any.
loadFSTree(store, last) ==
  LET rootNFSNode == NewFuseFSNode(<< >>, << >>, GenerateInode(last),
                                   FileMode(TRUE, perm_READ), TRUE)
      walk == WalkDir(store,
                      [tree |-> <<rootNFSNode>>, nodesByRelPath |-> (<< >> :> 1),
                       lastInode |-> GenerateInode(last), walkErrors |-> {}],
                      WalkRoot)
  IN  [tree |-> walk.st.tree, lastInode |-> walk.st.lastInode,
       walkErrors |-> walk.st.walkErrors, err |-> walk.ret]

\* NewFS: log.Fatalf unless both directories exist, lastInode: 1, loadFSTree,
\* log.Fatalf on its error, rfs.rootNode = rootNode otherwise.  main evaluates
\* initCache before it calls NewFS.
NewFS ==
  /\ fsStatus = "new"
  /\ status = "ready"
  /\ IF ~nfs.nfsDir \/ ~nfs.ssdDir
     THEN /\ fsStatus' = "fatal"
          /\ UNCHANGED <<tree, lastInode, handed, walkErrors>>
     ELSE LET built == loadFSTree(nfs, 1)
          IN  /\ lastInode' = built.lastInode
              /\ handed' = [i \in 1..(built.lastInode - 1) |-> i + 1]
              /\ walkErrors' = built.walkErrors
              /\ IF built.err # Nil
                 THEN fsStatus' = "fatal" /\ UNCHANGED tree
                 ELSE fsStatus' = "built" /\ tree' = built.tree
  /\ UNCHANGED <<cacheVars, lockVars, procVars, reqVars, histVars, found, nfs,
                 utilVars, nodesByRelPath, mount>>

\* fuseFS.GenerateInode called by a goroutine of the FUSE server, which has the
\* method through fs.FSInodeGenerator.  The method takes no lock and lastInode
\* is a plain uint64, so `rfs.lastInode++` is a load, an increment in a
\* register and a store that other calls can interleave with.
GenerateInodeLoad(p) ==
  /\ fsStatus = "built"
  /\ pc[p] = "idle"
  /\ Len(handed)
       + Cardinality({ q \in Procs : pc[q] \in {"inode_loaded", "inode_stored"} })
     < Len(ServedTree) + MaxCalls
  /\ pc' = [pc EXCEPT ![p] = "inode_loaded"]
  /\ inodeTmp' = [inodeTmp EXCEPT ![p] = lastInode]
  /\ UNCHANGED <<cacheVars, lockVars, path, buf, err, evicted, reqVars, histVars,
                 fsVars, flatPath, walkVars>>

GenerateInodeStore(p) ==
  /\ pc[p] = "inode_loaded"
  /\ pc' = [pc EXCEPT ![p] = "inode_stored"]
  /\ inodeTmp' = [inodeTmp EXCEPT ![p] = GenerateInode(@)]
  /\ lastInode' = GenerateInode(inodeTmp[p])
  /\ UNCHANGED <<cacheVars, lockVars, path, buf, err, evicted, reqVars, histVars,
                 tree, found, nfs, fsStatus, flatPath, walkVars>>

\* `return rfs.lastInode`: the value the call has in its register, or the one
\* it loads from the field again, as the compiler chose.
GenerateInodeReturn(p) ==
  /\ pc[p] = "inode_stored"
  /\ pc' = [pc EXCEPT ![p] = "idle"]
  /\ \E reload \in BOOLEAN :
       handed' = Append(handed, IF reload THEN lastInode ELSE inodeTmp[p])
  /\ inodeTmp' = [inodeTmp EXCEPT ![p] = 0]
  /\ UNCHANGED <<cacheVars, lockVars, path, buf, err, evicted, reqVars, histVars,
                 fsVars, flatPath, nodesByRelPath, walkErrors, mount>>

\* The calls filepath.WalkDir makes to the callback over a store: the error of
\* os.Lstat on the root with a nil DirEntry, each entry with its DirEntry, and
\* the error of os.ReadDir on a directory that cannot be listed.  An entry's
\* path is filepath.Join(root, ...), which for the root "" is the entry's
\* relative path; the absolute path is what the callback's comparison with
\* fs.nfsBaseAbs expects.
WalkCalls(store) ==
  {[cur |-> WalkRoot, d |-> None, e |-> "ENOENT"]}
  \cup { [cur |-> pth, d |-> Some([name |-> Base(ent), isDir |-> NfsIsDir(ent)]),
          e |-> Nil] :
            <<ent, pth>> \in { <<x, y>> \in store.entries \X
                                 { AbsPath(z) : z \in store.entries }
                                 \cup store.entries \X store.entries :
                                   y = x \/ y = AbsPath(x) } }
  \cup { [cur |-> pth, d |-> Some([name |-> Base(ent), isDir |-> TRUE]),
          e |-> "EACCES"] :
            <<ent, pth>> \in { <<x, y>> \in store.denied \X
                                 { AbsPath(z) : z \in store.denied }
                                 \cup store.denied \X store.denied :
                                   y = x \/ y = AbsPath(x) } }

\* NewFS up to the walk: log.Fatalf unless both directories exist, lastInode: 1,
\* and loadFSTree's root node and nodesByRelPath[""] = rootNFSNode.  main
\* evaluates initCache before it calls NewFS.
LoadRoot ==
  /\ fsStatus = "new"
  /\ status = "ready"
  /\ IF ~nfs.nfsDir \/ ~nfs.ssdDir
     THEN /\ fsStatus' = "fatal"
          /\ UNCHANGED <<tree, lastInode, nodesByRelPath, handed>>
     ELSE /\ tree' = <<NewFuseFSNode(<< >>, << >>, GenerateInode(1),
                                     FileMode(TRUE, perm_READ), TRUE)>>
          /\ nodesByRelPath' = (<< >> :> 1)
          /\ lastInode' = GenerateInode(1)
          /\ handed' = Append(handed, GenerateInode(1))
          /\ fsStatus' = "walking"
  /\ UNCHANGED <<cacheVars, lockVars, procVars, reqVars, histVars, found, nfs,
                 utilVars, walkErrors, mount>>

\* One call of loadFSTree's callback by filepath.WalkDir: nil or SkipDir lets
\* the walk go on, any other error ends it, loadFSTree returns nil with the
\* error and NewFS ends in log.Fatalf.
Visit(c) ==
  /\ fsStatus = "walking"
  /\ LET r == visit([tree |-> tree, nodesByRelPath |-> nodesByRelPath,
                     lastInode |-> lastInode, walkErrors |-> walkErrors],
                    c.cur, c.d, c.e)
     IN  /\ Len(r.st.tree) <= MaxNodes
         /\ walkErrors' = r.st.walkErrors
         /\ IF r.ret \in {Nil, "SkipDir"}
            THEN /\ tree' = r.st.tree
                 /\ nodesByRelPath' = r.st.nodesByRelPath
                 /\ lastInode' = r.st.lastInode
                 /\ handed' = IF r.st.lastInode # lastInode
                              THEN Append(handed, r.st.lastInode) ELSE handed
                 /\ UNCHANGED fsStatus
            ELSE /\ tree' = << >>
                 /\ nodesByRelPath' = [x \in {} |-> 0]
                 /\ fsStatus' = "fatal"
                 /\ UNCHANGED <<lastInode, handed>>
  /\ UNCHANGED <<cacheVars, lockVars, procVars, reqVars, histVars, found, nfs,
                 utilVars, mount>>

\* filepath.WalkDir returns nil: loadFSTree returns rootNFSNode and NewFS sets
\* rfs.rootNode and returns.
LoadReturn ==
  /\ fsStatus = "walking"
  /\ fsStatus' = "built"
  /\ nodesByRelPath' = [x \in {} |-> 0]
  /\ UNCHANGED <<cacheVars, lockVars, procVars, reqVars, histVars, tree, found,
                 nfs, lastInode, utilVars, handed, walkErrors, mount>>

\* main: fuseFS.Mount() before NewFS has returned.
MountUnbuilt ==
  /\ fsStatus \in {"walking", "built"}
  /\ mount = "unmounted"
  /\ mount' = "mounted"
  /\ UNCHANGED <<cacheVars, lockVars, procVars, reqVars, histVars, fsVars,
                 utilVars, nodesByRelPath, handed, walkErrors>>

\* main: fuseFS.Mount() once NewFS has returned; log.Fatalf if it fails.
Mount ==
  /\ fsStatus = "built"
  /\ mount = "unmounted"
  /\ \E failed \in BOOLEAN :
       IF failed
       THEN fsStatus' = "fatal" /\ UNCHANGED <<mount, tree, found, nfs, lastInode>>
       ELSE mount' = "mounted" /\ UNCHANGED fsVars
  /\ UNCHANGED <<cacheVars, lockVars, procVars, reqVars, histVars, utilVars,
                 nodesByRelPath, handed, walkErrors>>

\* main: fuseFS.Serve(), from which the FUSE server dispatches requests.
Serve ==
  /\ fsStatus = "built"
  /\ mount = "mounted"
  /\ mount' = "serving"
  /\ UNCHANGED <<cacheVars, lockVars, procVars, reqVars, histVars, fsVars,
                 utilVars, nodesByRelPath, handed, walkErrors>>

\* ------------------------------------------------------------------ callers

\* The characters of the paths handed to flattenDirPath: a letter, the
\* separator and the marker.
Alphabet == {"a", "/", "$"}

\* Every path of at most MaxPathLen characters.
FlattenInputs == UNION { [1..k -> Alphabet] : k \in 0..MaxPathLen }

\* A goroutine calls flattenDirPath(pth): flatPath := flattenDirPath(path).
Flatten(p, pth) ==
  /\ path' = [path EXCEPT ![p] = pth]
  /\ flatPath' = [flatPath EXCEPT ![p] = Some(flattenDirPath(pth))]
  /\ UNCHANGED <<cacheVars, lockVars, pc, buf, err, evicted, reqVars, histVars,
                 fsVars, inodeTmp, walkVars>>

\* A goroutine calls Cache.Get(path).
ClientGet(p, pth) ==
  /\ status = "ready"
  /\ pc[p] = "idle"
  /\ pc' = [pc EXCEPT ![p] = GetEntry[policy]]
  /\ path' = [path EXCEPT ![p] = pth]
  /\ UNCHANGED <<cacheVars, lockVars, buf, err, evicted, reqVars, histVars,
                 fsVars, utilVars, walkVars>>

\* A goroutine calls Cache.Put(path, data, mode).
ClientPut(p, pth, data) ==
  /\ status = "ready"
  /\ pc[p] = "idle"
  /\ pc' = [pc EXCEPT ![p] = PutEntry[policy]]
  /\ path' = [path EXCEPT ![p] = pth]
  /\ buf' = [buf EXCEPT ![p] = data]
  /\ UNCHANGED <<cacheVars, lockVars, err, evicted, reqVars, histVars, fsVars, utilVars, walkVars>>

\* The call has returned; its locals go out of scope.
ClientReturn(p) ==
  /\ pc[p] \in {"get_done", "put_done"}
  /\ pc' = [pc EXCEPT ![p] = "idle"]
  /\ path' = [path EXCEPT ![p] = << >>]
  /\ buf' = [buf EXCEPT ![p] = NoBytes]
  /\ err' = [err EXCEPT ![p] = Nil]
  /\ evicted' = [evicted EXCEPT ![p] = None]
  /\ UNCHANGED <<cacheVars, lockVars, reqVars, histVars, fsVars, utilVars, walkVars>>

\* ------------------------------------------------------------------ specifications

InitCache ==
  /\ policy = "none"
  /\ status = "unbuilt"
  /\ capacity = 0
  /\ byteLimit = 0
  /\ byteCount = 0
  /\ isPresent = {}
  /\ queue = << >>
  /\ ssd = [k \in FlatKeys |-> NoFile]
  /\ cacheMu = [writer |-> Nil, readers |-> {}]
  /\ queueMu = Nil
  /\ pc = [p \in Procs |-> "idle"]
  /\ path = [p \in Procs |-> << >>]
  /\ buf = [p \in Procs |-> NoBytes]
  /\ err = [p \in Procs |-> Nil]
  /\ evicted = [p \in Procs |-> None]
  /\ res = [p \in Procs |-> NoResult]
  /\ nfsData = [p \in Procs |-> NoBytes]
  /\ log = [p \in Procs |-> << >>]
  /\ calls = [p \in Procs |-> << >>]
  /\ touched = << >>
  /\ admitted = 0
  /\ refused = {}
  /\ accepted = {}
  /\ settled = [k \in FlatKeys |-> None]
  /\ fresh = [pth \in { relPath(n) : n \in Nodes } |-> None]
  /\ flatPath = [p \in Procs |-> None]
  /\ inodeTmp = [p \in Procs |-> 0]
  /\ readmitted = None

\* The cache not yet built, over the node graph that NewFS returned.
InitCommon ==
  /\ InitCache
  /\ tree = ServedTree
  /\ found = [p \in Procs |-> NoFound]
  /\ nfs = [nfsDir |-> TRUE, ssdDir |-> TRUE,
            entries |-> { relPath(n) : n \in Nodes }, denied |-> {}]
  /\ lastInode = Len(ServedTree) + 1
  /\ fsStatus = "built"
  /\ nodesByRelPath = [x \in {} |-> 0]
  /\ walkErrors = {}
  /\ mount = "serving"
  /\ handed = [i \in 1..Len(ServedTree) |-> ServedTree[i].Inode]

\* The cache not yet built, over the node graph ShadowTree.
InitShadow ==
  /\ InitCache
  /\ tree = ShadowTree
  /\ found = [p \in Procs |-> NoFound]
  /\ nfs = [nfsDir |-> TRUE, ssdDir |-> TRUE,
            entries |-> { relPath(ShadowTree[i]) : i \in 2..Len(ShadowTree) },
            denied |-> {}]
  /\ lastInode = Len(ShadowTree) + 1
  /\ fsStatus = "built"
  /\ nodesByRelPath = [x \in {} |-> 0]
  /\ walkErrors = {}
  /\ mount = "serving"
  /\ handed = [i \in 1..Len(ShadowTree) |-> ShadowTree[i].Inode]

LruSteps(p) ==
  \/ LruGetCheck(p)
  \/ LruPromoteLock(p)
  \/ LruGetPromote(p)
  \/ LruGetRead(p)
  \/ LruPutWrite(p)
  \/ LruPutPromote(p)
  \/ LruPutUpdate(p)

ClientSteps(p) ==
  \/ \E pth \in Paths : ClientGet(p, pth)
  \/ \E pth \in Paths, data \in Payloads : ClientPut(p, pth, data)
  \/ ClientReturn(p)

\* The LRU cache under concurrent callers of Get and Put.
NextLRU ==
  \/ \E c \in -1..MaxCapacity : NewLRUCache(c)
  \/ \E p \in Procs : LruSteps(p)
  \/ \E p \in Procs : ClientSteps(p)

SpecLRU == InitCommon /\ [][NextLRU]_vars

SizeSteps(p) ==
  \/ SizeGetCheck(p)
  \/ SizeGetRead(p)
  \/ SizePutCheck(p)
  \/ SizePutWrite(p)

\* The size-limited cache under concurrent callers of Get and Put.
NextSize ==
  \/ \E limit \in -1..MaxBudget : NewSizeLimitedCache(limit)
  \/ \E p \in Procs : SizeSteps(p)
  \/ \E p \in Procs : ClientSteps(p)

SpecSize == InitCommon /\ [][NextSize]_vars

DefSteps(p) ==
  \/ DefGet(p)
  \/ DefPutOpen(p)
  \/ DefPutWrite(p)

DataSteps(p) ==
  \/ \E n \in Nodes : DataStat(p, n)
  \/ DataAfterGet(p)
  \/ DataNfsRead(p)
  \/ DataAfterPut(p)
  \/ DataReturn(p)

\* Concurrent content reads through fuseFSNode.data over the cache that
\* initCache built: any of the three policies.
NextRead ==
  \/ NewDefaultCache
  \/ \E limit \in -1..MaxBudget : NewSizeLimitedCache(limit)
  \/ \E c \in -1..MaxCapacity : NewLRUCache(c)
  \/ \E p \in Procs : DefSteps(p)
  \/ \E p \in Procs : SizeSteps(p)
  \/ \E p \in Procs : LruSteps(p)
  \/ \E p \in Procs : DataSteps(p)

SpecRead == InitCommon /\ [][NextRead]_vars

\* The steps of goroutine p that acquire a mutex of the cache.
LockSteps(p) ==
  \/ LruGetCheck(p)
  \/ LruPromoteLock(p)
  \/ LruPutWrite(p)
  \/ SizeGetCheck(p)
  \/ SizePutCheck(p)

\* The steps of a content read of goroutine p once the request has begun.
RequestSteps(p) ==
  \/ DefSteps(p)
  \/ SizeSteps(p)
  \/ LruSteps(p)
  \/ DataAfterGet(p)
  \/ DataNfsRead(p)
  \/ DataAfterPut(p)
  \/ DataReturn(p)

\* The -lrucap and -sizelim flags of the runs checked for progress: an LRU cache
\* that holds one of the two files, a byte budget that admits one of them.
ProgressCapacities == {1}
ProgressBudgets == {2}

\* Concurrent content reads of the files a and d/c over a cache of any policy.
NextReadFair ==
  \/ NewDefaultCache
  \/ \E limit \in ProgressBudgets : NewSizeLimitedCache(limit)
  \/ \E c \in ProgressCapacities : NewLRUCache(c)
  \/ \E p \in Procs : RequestSteps(p)
  \/ \E p \in Procs, n \in { m \in Nodes : relPath(m) \in Paths } : DataStat(p, n)

\* Concurrent content reads under the scheduling of the Go runtime: a goroutine
\* that can run does run (weak fairness of each request), and a goroutine
\* blocked in Lock or RLock gets the mutex when it is released again and again
\* (sync.Mutex hands a starving waiter the lock; a waiting writer of a
\* sync.RWMutex blocks new readers).
SpecReadFair ==
  /\ InitCommon
  /\ [][NextReadFair]_vars
  /\ \A p \in Procs : WF_vars(RequestSteps(p)) /\ SF_vars(LockSteps(p))

\* The goroutine of a FUSE server that handles one request at a time.
Reader == "p1"

\* Content reads through fuseFSNode.data, one request after the other, over
\* the cache that initCache built.
NextReadSeq ==
  \/ NewDefaultCache
  \/ \E limit \in -1..MaxBudget : NewSizeLimitedCache(limit)
  \/ \E c \in -1..MaxCapacity : NewLRUCache(c)
  \/ DefSteps(Reader)
  \/ SizeSteps(Reader)
  \/ LruSteps(Reader)
  \/ DataSteps(Reader)

SpecReadSeq == InitCommon /\ [][NextReadSeq]_vars

\* flattenDirPath applied by each goroutine to any path.
NextFlatten == \E p \in Procs, pth \in FlattenInputs : Flatten(p, pth)

SpecFlatten == InitCommon /\ [][NextFlatten]_vars

\* The backing stores: any of the entries of Nodes, a file only together with
\* its directory, each directory listable or not, and the NFS and SSD
\* directories present or missing (a missing NFS directory has no entries).
Stores ==
  { st \in [nfsDir : BOOLEAN, ssdDir : BOOLEAN,
            entries : SUBSET { relPath(n) : n \in Nodes },
            denied : SUBSET { relPath(n) : n \in Nodes }] :
      /\ \A e \in st.entries :
           Dir(e) # <<".">> => Dir(e) \in st.entries /\ NfsIsDir(Dir(e))
      /\ \A e \in st.denied : e \in st.entries /\ NfsIsDir(e)
      /\ ~st.nfsDir => st.entries = {} }

\* Startup over any backing store: initCache, then NewFS and its loadFSTree.
InitBuild ==
  /\ InitCache
  /\ tree = << >>
  /\ found = [p \in Procs |-> NoFound]
  /\ nfs \in Stores
  /\ lastInode = 0
  /\ fsStatus = "new"
  /\ nodesByRelPath = [x \in {} |-> 0]
  /\ walkErrors = {}
  /\ mount = "unmounted"
  /\ handed = << >>

NextBuild ==
  \/ NewDefaultCache
  \/ \E limit \in -1..MaxBudget : NewSizeLimitedCache(limit)
  \/ \E c \in -1..MaxCapacity : NewLRUCache(c)
  \/ NewFS

SpecBuild == InitBuild /\ [][NextBuild]_vars

\* main from initCache to Serve over any backing store, the callback under
\* every sequence of calls that a walk of the store can make, and then the
\* requests of a FUSE server that handles one request at a time over the
\* default cache: Lookup and ReadDirAll on any node, content reads of the file
\* a and of the directory d.
InitMain ==
  /\ InitBuild
  /\ nfs.ssdDir

NextMain ==
  \/ NewDefaultCache
  \/ LoadRoot
  \/ \E c \in WalkCalls(nfs) : Visit(c)
  \/ LoadReturn
  \/ Mount
  \/ Serve
  \/ mount = "serving" /\ DefSteps(Reader)
  \/ \E n \in { m \in Nodes : relPath(m) \in {<<"a">>, <<"d">>} } :
       mount = "serving" /\ DataStat(Reader, n)
  \/ mount = "serving" /\ DataAfterGet(Reader)
  \/ mount = "serving" /\ DataNfsRead(Reader)
  \/ mount = "serving" /\ DataAfterPut(Reader)
  \/ mount = "serving" /\ DataReturn(Reader)
  \/ \E n \in 1..MaxNodes, name \in Names :
       mount = "serving" /\ n <= Len(tree) /\ Lookup(Reader, n, name)
  \/ \E n \in 1..MaxNodes :
       mount = "serving" /\ n <= Len(tree) /\ ReadDirAll(Reader, n)
  \/ mount = "serving" /\ NodeReturn(Reader)

SpecMain == InitMain /\ [][NextMain]_vars

NodeSteps(p) ==
  \/ \E n \in DOMAIN ServedTree, name \in Names : Lookup(p, n, name)
  \/ \E n \in DOMAIN ServedTree : ReadDirAll(p, n)
  \/ NodeReturn(p)

\* The requests of a FUSE server that handles one request at a time: content
\* reads, Lookup and ReadDirAll, over the cache that initCache built.
NextServeSeq ==
  \/ NewDefaultCache
  \/ \E limit \in -1..MaxBudget : NewSizeLimitedCache(limit)
  \/ \E c \in -1..MaxCapacity : NewLRUCache(c)
  \/ DefSteps(Reader)
  \/ SizeSteps(Reader)
  \/ LruSteps(Reader)
  \/ DataSteps(Reader)
  \/ NodeSteps(Reader)

SpecServeSeq == InitCommon /\ [][NextServeSeq]_vars

\* Attr requests on any node, concurrent with content reads over the default or
\* the size-limited cache.
AttrSteps(p) ==
  \/ \E n \in DOMAIN ServedTree : Attr(p, n)
  \/ AttrReturn(p)

NextAttr ==
  \/ NewDefaultCache
  \/ \E limit \in -1..MaxBudget : NewSizeLimitedCache(limit)
  \/ \E p \in Procs : DefSteps(p)
  \/ \E p \in Procs : SizeSteps(p)
  \/ \E p \in Procs : DataSteps(p)
  \/ \E p \in Procs : AttrSteps(p)

SpecAttr == InitCommon /\ [][NextAttr]_vars

\* Concurrent calls of GenerateInode by the goroutines of the FUSE server,
\* beside Lookup and ReadDirAll requests.
InodeSteps(p) ==
  \/ GenerateInodeLoad(p)
  \/ GenerateInodeStore(p)
  \/ GenerateInodeReturn(p)

NextInode ==
  \/ NewDefaultCache
  \/ \E p \in Procs : InodeSteps(p)
  \/ \E p \in Procs : NodeSteps(p)

SpecInode == InitCommon /\ [][NextInode]_vars

\* Concurrent Lookup and ReadDirAll requests on the nodes of ShadowTree.
NextShadow ==
  \/ NewDefaultCache
  \/ \E p \in Procs, n \in DOMAIN ShadowTree, name \in Names : Lookup(p, n, name)
  \/ \E p \in Procs, n \in DOMAIN ShadowTree : ReadDirAll(p, n)
  \/ \E p \in Procs : NodeReturn(p)

SpecShadow == InitShadow /\ [][NextShadow]_vars

\* The default cache under concurrent callers of Get and Put.
NextDefault ==
  \/ NewDefaultCache
  \/ \E p \in Procs : DefSteps(p)
  \/ \E p \in Procs : ClientSteps(p)

SpecDefault == InitCommon /\ [][NextDefault]_vars

\* ------------------------------------------------------------------ properties

Range(q) == { q[i] : i \in 1..Len(q) }
Last(q) == q[Len(q)]
Key(p) == flattenDirPath(path[p])
\* The files of the SSD directory.
Stored == { k \in FlatKeys : ssd[k] # NoFile }
\* An LRU cache that NewLRUCache returned with a capacity of at least one.
LruReady == policy = "lru" /\ status = "ready" /\ capacity >= 1
\* No Put is inside its locked section.
Quiescent == cacheMu.writer = Nil
\* The position of key k in the touch history; a larger rank is a later touch.
TouchRank(k) == IndexOf(touched, k)
\* The n most recently touched keys.
MostRecent(n) ==
  { touched[i] : i \in { j \in 1..Len(touched) : j > Len(touched) - n } }
Min(a, b) == IF a < b THEN a ELSE b

\* C2: with capacity c >= 1, in every reachable state of the LRU cache, under any
\* interleaving of Get and Put, the membership index holds at most c keys and
\* the eviction queue is at most c long.
C2_LruWithinCapacity ==
  LruReady => /\ Cardinality(isPresent) <= capacity
              /\ Len(queue) <= capacity

\* A Put has evicted from a full queue of capacity 2 while the other goroutine
\* is inside a call of its own.
C2_Witness ==
  /\ LruReady /\ capacity = 2 /\ Len(queue) = 2
  /\ \E p \in Procs : /\ pc[p] = "lru_put_update" /\ evicted[p] # None
                      /\ \E o \in Procs \ {p} : pc[o] # "idle"

\* The step in which goroutine p's Put runs promote.
PutPromoteStep(p) == pc[p] = "lru_put_promoting" /\ pc'[p] = "lru_put_update"

\* C3: whenever an LRU Put evicts, exactly one key leaves the queue, it is the
\* queue head, and it is the member of the cache whose most recent touch is
\* older than that of every other member.
C3_EvictsLeastRecentMember ==
  [][\A p \in Procs :
       (LruReady /\ PutPromoteStep(p) /\ evicted'[p] # None) =>
         LET ev == evicted'[p][1]
         IN  /\ ev = Head(queue)
             /\ Range(queue') = (Range(queue) \cup {Key(p)}) \ {ev}
             /\ ev \in isPresent
             /\ \A m \in isPresent \ {ev} : TouchRank(ev) < TouchRank(m)]_vars

\* C4: after any sequence of successful Puts and Get hits on a cache of capacity
\* c, the membership set is the set of the min(c, n) most recently touched
\* distinct keys (n the number of distinct keys touched), the just-put key
\* included; capacity 2 and Put a, b, d/c leaves {b, d$c}.
C4_MembershipIsMostRecent ==
  (LruReady /\ Quiescent) =>
    isPresent = MostRecent(Min(capacity, Len(touched)))

\* C5: in every reachable state of the LRU cache each key is at most once in the
\* queue and the membership index has as many keys as the queue is long.
C5_IndexMatchesQueue ==
  (LruReady /\ Quiescent) =>
    /\ \A i, j \in 1..Len(queue) : queue[i] = queue[j] => i = j
    /\ Cardinality(isPresent) = Len(queue)

\* The step in which goroutine p's Put updates the membership index and returns.
PutUpdateStep(p) == pc[p] = "lru_put_update" /\ pc'[p] = "put_done"

\* C6: when the LRU cache evicts a key, the key leaves the membership index and
\* its payload file is deleted, so that after every Put the payload files in
\* storage are those of the members.
C6_EvictionDeletesPayload ==
  [][\A p \in Procs :
       (LruReady /\ PutUpdateStep(p)) =>
         /\ evicted[p] # None =>
              /\ evicted[p][1] \notin isPresent'
              /\ ssd'[evicted[p][1]] = NoFile
         /\ { k \in FlatKeys : ssd'[k] # NoFile } = isPresent']_vars

\* A step of goroutine p inside lruCache.Get.
GetStep(p) ==
  /\ pc[p] \in {"lru_get", "lru_get_promote", "lru_get_promoting", "lru_get_read"}
  /\ pc'[p] # pc[p]

\* The queue with key k moved to its tail, the order of the others kept.
MovedToTail(q, k) ==
  LET other(x) == x # k
  IN  Append(SelectSeq(q, other), k)

\* C7: an LRU Get, hit or miss, changes nothing but the eviction order: every
\* payload and the membership set stay as they are, no key is evicted, and on
\* a hit the key becomes the queue tail with the order of the others kept.
C7_GetOnlyReorders ==
  [][\A p \in Procs :
       (policy = "lru" /\ GetStep(p)) =>
         /\ ssd' = ssd
         /\ isPresent' = isPresent
         /\ Range(queue') = Range(queue)
         /\ Len(queue') = Len(queue)
         /\ IF pc[p] = "lru_get_promoting"
            THEN queue' = MovedToTail(queue, Key(p))
            ELSE queue' = queue]_vars

\* A Get hit has moved its key from the head of a queue of two to the tail.
C7_Witness ==
  \E p \in Procs :
    /\ LruReady /\ pc[p] = "get_done" /\ err[p] = Nil
    /\ Len(queue) = 2 /\ Last(queue) = Key(p)
    /\ Len(touched) >= 2 /\ Last(touched) = Key(p)
    /\ TouchRank(queue[1]) = Len(touched) - 1
    /\ buf[p] = ssd[Key(p)][1]

\* C8: NewLRUCache with capacity zero ends the process with a fatal error: no
\* cache exists, and no Get or Put ever runs on one.
C8_ZeroCapacityIsFatal ==
  policy = "lru" =>
    /\ status = "fatal" <=> capacity = 0
    /\ status = "fatal" =>
         /\ \A p \in Procs : pc[p] = "idle"
         /\ isPresent = {} /\ queue = << >> /\ Stored = {}

\* The process has ended in NewLRUCache.
C8_Witness == policy = "lru" /\ status = "fatal" /\ capacity = 0

\* A size-limited cache with a non-negative budget.
SizeReady == policy = "size" /\ status = "ready" /\ byteLimit >= 0

\* C9: with a non-negative budget, in every reachable state of the size-limited
\* cache, under any interleaving of Puts, the running total, which is the sum
\* of the sizes of all accepted Puts, is at most the byte budget.
C9_TotalWithinBudget ==
  SizeReady => /\ byteCount = admitted
               /\ admitted <= byteLimit

\* Two goroutines put at once and the budget of 3 is used up exactly.
C9_Witness ==
  /\ SizeReady /\ byteLimit = 3 /\ byteCount = 3
  /\ Cardinality(isPresent) = 2
  /\ \A p \in Procs : pc[p] = "put_done"

\* The step in which goroutine p's Put makes the admission test.
SizePutCheckStep(p) == pc[p] = "size_put" /\ pc'[p] # "size_put"

\* C10: a size-limited Put of n bytes returns ErrWontCache exactly when
\* total + n > budget (total + n = budget is admitted), and a refused Put
\* writes nothing and leaves the total and the membership index unchanged.
C10_RefusedIffOverBudget ==
  [][\A p \in Procs :
       /\ (policy = "size" /\ SizePutCheckStep(p)) =>
            /\ err'[p] = ErrWontCache <=> byteCount + Len(buf[p]) > byteLimit
            /\ err'[p] = ErrWontCache =>
                 /\ pc'[p] = "put_done"
                 /\ ssd' = ssd /\ byteCount' = byteCount /\ isPresent' = isPresent
            /\ err'[p] # ErrWontCache => pc'[p] = "size_put_write"
       /\ (policy = "size" /\ pc[p] = "size_put_write") => err'[p] # ErrWontCache]_vars

\* One Put was admitted at total + n = budget and another is refused.
C10_Witness ==
  \E p, o \in Procs :
    /\ SizeReady /\ byteLimit = 3 /\ byteCount = 3
    /\ pc[p] = "put_done" /\ err[p] = Nil /\ ssd[Key(p)] = Some(buf[p])
    /\ pc[o] = "put_done" /\ err[o] = ErrWontCache /\ ssd[Key(o)] = NoFile

\* The log lines of goroutine p's current request.
Logs(p) == Range(log[p])

\* C1: a content read of a regular file whose backing-store stat and read both
\* succeed returns success with the file's bytes, whatever Cache.Get
\* (ErrNotFoundCache or any other error) and Cache.Put (ErrWontCache or any
\* other error) returned; and no read that was served, from the cache or from
\* the backing store, ends in an error.
C1_CacheNeverFailsRead ==
  \A p \in Procs :
    pc[p] = "data_done" =>
      /\ "NFS_READ" \in Logs(p) =>
           res[p] = [bytes |-> NfsContent(path[p]), err |-> Nil]
      /\ ("NFS_READ" \in Logs(p) \/ "CACHE_HIT" \in Logs(p)) => res[p].err = Nil
      /\ res[p].err # Nil =>
           \/ res[p].err \in {"ENOENT", "EISDIR"} /\ log[p] = << >>
           \/ res[p].err = "EIO" /\ "ERROR: Failed to read from NFS" \in Logs(p)

\* A read succeeded with the file's bytes although Cache.Get failed with an
\* error other than ErrNotFoundCache and Cache.Put failed too.
C1_Witness ==
  \E p \in Procs :
    /\ pc[p] = "data_done"
    /\ "WARNING: Error reading from SSD cache" \in Logs(p)
    /\ "ERROR: Failed to write to cache" \in Logs(p)
    /\ res[p] = [bytes |-> NfsContent(path[p]), err |-> Nil]
    /\ res[p].bytes # NoBytes

\* ------------------------------------------------------------------ C11

\* C11: under the size-limited policy no step lowers the admitted-byte total
\* or removes a key from the membership set, and once a Put of n bytes has
\* been refused every later Put of n or more bytes is refused too.
C11_SizeNeverShrinks ==
  [][policy = "size" =>
       /\ byteCount' >= byteCount
       /\ admitted' >= admitted
       /\ isPresent \subseteq isPresent'
       /\ \A p \in Procs :
            (SizePutCheckStep(p) /\ \E n \in refused : Len(buf[p]) >= n) =>
              /\ err'[p] = ErrWontCache
              /\ pc'[p] = "put_done"]_vars

\* After an accepted Put, a 1-byte and a 2-byte Put have both been refused.
C11_Witness ==
  /\ SizeReady /\ byteCount > 0 /\ isPresent # {}
  /\ refused = {1, 2}
  /\ \E p \in Procs : pc[p] = "put_done" /\ err[p] = ErrWontCache

\* ------------------------------------------------------------------ C12

\* The -sizelim of README test 2 and the sizes of the three files it reads:
\* project-1/common-lib.py, project-1/main.py, another-folder/text-file.txt.
SizeLimScenario == 64
CommonLibLen == 72
MainPyLen == 54
TextFileLen == 47

\* A payload of n bytes.
Bytes(n) == [i \in 1..n |-> 0]

\* The content of README test 2's files, under this model's path names.
ScenarioFile(pth) ==
  CASE pth = <<"a">> -> Bytes(CommonLibLen)
    [] pth = <<"b">> -> Bytes(MainPyLen)
    [] OTHER -> Bytes(TextFileLen)

\* README test 2: the size-limited cache with -sizelim=64, each file put with
\* its own content, by concurrent callers.
NextScenarioB ==
  \/ NewSizeLimitedCache(SizeLimScenario)
  \/ \E p \in Procs : SizeSteps(p)
  \/ \E p \in Procs, pth \in Paths : ClientGet(p, pth)
  \/ \E p \in Procs, pth \in Paths : ClientPut(p, pth, ScenarioFile(pth))
  \/ \E p \in Procs : ClientReturn(p)

SpecScenarioB == InitCommon /\ [][NextScenarioB]_vars

\* C12: a size-limited Get(k) returns bytes only if an earlier Put(k) was
\* accepted, so a key whose every Put was refused is never a hit; with a
\* 64-byte budget a 72-byte Put is refused, a 54-byte Put into the empty
\* cache is admitted, and a 47-byte Put after it is refused.
C12_HitOnlyIfAccepted ==
  [][policy = "size" =>
       \A p \in Procs :
         /\ (pc'[p] = "get_done" /\ err'[p] = Nil) =>
              /\ flattenDirPath(path'[p]) \in accepted'
              /\ flattenDirPath(path'[p]) \in isPresent'
         /\ (SizePutCheckStep(p) /\ byteLimit = SizeLimScenario) =>
              /\ Len(buf[p]) = CommonLibLen => err'[p] = ErrWontCache
              /\ (Len(buf[p]) = MainPyLen /\ byteCount = 0) =>
                   pc'[p] = "size_put_write"
              /\ (Len(buf[p]) = TextFileLen /\ byteCount = MainPyLen) =>
                   err'[p] = ErrWontCache]_vars

\* The 72-byte and the 47-byte Put were refused, the 54-byte Put accepted, and
\* a Get of the 54-byte file hits while a Get of a refused file misses.
C12_Witness ==
  \E p, o \in Procs :
    /\ SizeReady /\ byteLimit = SizeLimScenario /\ byteCount = MainPyLen
    /\ refused = {CommonLibLen, TextFileLen}
    /\ accepted = {<<"b">>}
    /\ pc[p] = "get_done" /\ err[p] = Nil /\ Len(buf[p]) = MainPyLen
    /\ pc[o] = "get_done" /\ err[o] = ErrNotFoundCache /\ path[o] = <<"a">>

\* ------------------------------------------------------------------ C13

\* The step in which goroutine p's default-cache Get reads the file.
DefGetStep(p) == pc[p] = "def_get" /\ pc'[p] = "get_done"

\* No Put of key k is between opening the file and writing it.
NoPutWriting(k) == \A p \in Procs : ~(Key(p) = k /\ pc[p] = "def_put_write")

AfterGetStep(p) == pc[p] = "get_done" /\ pc'[p] # "get_done"

\* C14: when Cache.Get returns bytes, the content read returns exactly those
\* bytes at once: the request whose Get hit makes no other call, neither a
\* read of the backing store's content nor a Cache.Put.
C14_HitReturnsAtOnce ==
  [][\A p \in Procs :
       /\ (AfterGetStep(p) /\ err[p] = Nil) =>
            /\ pc'[p] = "data_done"
            /\ res'[p] = [bytes |-> buf[p], err |-> Nil]
            /\ calls'[p] = <<"Cache.Get">>
       /\ "CACHE_HIT" \in Range(log'[p]) =>
            /\ pc'[p] = "data_done"
            /\ calls'[p] = <<"Cache.Get">>
            /\ res'[p].err = Nil]_vars

\* A read was served from the cache: its only call was Cache.Get and it
\* returned the file's bytes.
C14_Witness ==
  \E p \in Procs :
    /\ pc[p] = "data_done" /\ log[p] = <<"CACHE_HIT">>
    /\ calls[p] = <<"Cache.Get">>
    /\ res[p] = [bytes |-> NfsContent(path[p]), err |-> Nil]
    /\ res[p].bytes # NoBytes

\* ------------------------------------------------------------------ C15

\* The calls of goroutine p's current request.
Calls(p) == Range(calls[p])

\* C15: under each policy (an LRU cache having a capacity of at least 1), if a
\* read of a file missed, read the backing store and its Put returned success,
\* then the next read of the same file, with no eviction of its key in between
\* (and with the stat and the cache's own file read not failing), returns the
\* same bytes and makes no backing-store read.
C15_ReadThroughIdempotent ==
  \A p \in Procs :
    ( /\ pc[p] = "data_done"
      /\ policy = "lru" => capacity >= 1
      /\ fresh[path[p]] # None
      /\ res[p].err # "ENOENT"
      /\ "WARNING: Error reading from SSD cache" \notin Logs(p) ) =>
        /\ res[p] = [bytes |-> fresh[path[p]][1], err |-> Nil]
        /\ "os.ReadFile" \notin Calls(p)

\* ------------------------------------------------------------------ C16

\* Goroutine p takes a step of a request that misses the cache and then fails
\* to read the backing store: the stat, the Get that returns ErrNotFoundCache,
\* the branch on Get's result, the read of the backing store, or the return.
MissThenFailStep(p) ==
  /\ pc'[p] # pc[p]
  /\ \/ pc[p] \in {"idle", "get_done", "data_nfs", "data_done"}
     \/ pc'[p] = "get_done" /\ err'[p] = ErrNotFoundCache

\* C16: when the read of the backing store fails after a cache miss, the
\* request returns EIO; it has read the backing store once and has not called
\* Cache.Put, and none of its steps changes the cache (storage, membership,
\* recency order, byte total).
C16_FailedReadLeavesCache ==
  [][\A p \in Procs :
       /\ MissThenFailStep(p) => UNCHANGED <<cacheVars, touched, admitted>>
       /\ (pc'[p] = "get_done" /\ pc[p] # "get_done" /\ err'[p] = ErrNotFoundCache) =>
            pc[p] = GetEntry[policy]
       /\ (pc[p] = "data_nfs" /\ pc'[p] = "data_done") =>
            /\ res'[p] = [bytes |-> NoBytes, err |-> "EIO"]
            /\ calls'[p] = calls[p] \o <<"os.ReadFile">>
       /\ (pc'[p] = "data_done" /\ res'[p].err = "EIO") =>
            "ERROR: Failed to read from NFS" \in Range(log'[p])
       /\ "ERROR: Failed to read from NFS" \in Range(log'[p]) =>
            /\ pc'[p] = "data_done"
            /\ res'[p] = [bytes |-> NoBytes, err |-> "EIO"]
            /\ calls'[p] = <<"Cache.Get", "os.ReadFile">>]_vars

\* A read missed a cache that holds another file, failed to read the backing
\* store and returned EIO.
C16_Witness ==
  \E p \in Procs :
    /\ pc[p] = "data_done" /\ res[p].err = "EIO"
    /\ err[p] = ErrNotFoundCache
    /\ calls[p] = <<"Cache.Get", "os.ReadFile">>
    /\ Stored # {} /\ Key(p) \notin Stored

\* ------------------------------------------------------------------ C17

\* C17: a content read of a directory whose stat succeeds fails with EISDIR in
\* its first step: the request calls neither Cache.Get nor Cache.Put, reads no
\* backing-store content, logs nothing and changes nothing of the cache; and
\* only a directory is answered EISDIR.
C17_DirectoryReadIsEISDIR ==
  [][\A p \in Procs :
       /\ (pc'[p] # "idle" /\ NfsIsDir(path'[p])) =>
            /\ pc'[p] = "data_done"
            /\ res'[p] \in {[bytes |-> NoBytes, err |-> "EISDIR"],
                            [bytes |-> NoBytes, err |-> "ENOENT"]}
            /\ calls'[p] = << >> /\ log'[p] = << >>
       /\ (pc[p] = "idle" /\ pc'[p] # "idle" /\ NfsIsDir(path'[p])) =>
            UNCHANGED <<cacheVars, lockVars, histVars>>
       /\ res'[p].err = "EISDIR" => NfsIsDir(path'[p])]_vars

\* A content read of the directory d was answered EISDIR while the cache
\* holds a file.
C17_Witness ==
  \E p \in Procs :
    /\ pc[p] = "data_done" /\ path[p] = <<"d">>
    /\ res[p] = [bytes |-> NoBytes, err |-> "EISDIR"]
    /\ calls[p] = << >>
    /\ Stored # {}

\* ------------------------------------------------------------------ C18

\* The children of node n that are named name.
ChildrenNamed(n, name) ==
  { tree[n].Children[i] : i \in { j \in 1..Len(tree[n].Children) :
                                    tree[tree[n].Children[j]].Name = name } }

\* C18: Lookup(name) on a node considers that node's immediate children only:
\* it returns a child of that name if there is one and ENOENT otherwise, also
\* when a node of that name exists deeper in the graph.
C18_LookupImmediateOnly ==
  \A p \in Procs :
    pc[p] = "lookup_done" =>
      IF ChildrenNamed(found[p].node, found[p].name) = {}
      THEN found[p].result = None
      ELSE /\ found[p].result # None
           /\ found[p].result[1] \in ChildrenNamed(found[p].node, found[p].name)

\* ------------------------------------------------------------------ C19

\* Goroutine p takes a step of a Lookup or ReadDirAll request.
NodeStep(p) ==
  /\ pc'[p] # pc[p]
  /\ \/ pc'[p] \in {"lookup_done", "readdir_done"}
     \/ pc[p] \in {"lookup_done", "readdir_done"}

\* C19: Lookup and ReadDirAll call neither Cache.Get nor Cache.Put and leave
\* the cache (storage, membership, recency order, byte total, locks) and the
\* node graph unchanged; and no step of any runtime request, content reads
\* included, changes a child list or anything else of the node graph.
C19_NodeRequestsChangeNothing ==
  [][/\ tree' = tree
     /\ \A p \in Procs :
          NodeStep(p) =>
            /\ UNCHANGED <<cacheVars, lockVars, histVars>>
            /\ calls[p] = << >> /\ calls'[p] = << >>
            /\ log'[p] = << >>]_vars

\* ReadDirAll on the root has listed its three children while the cache holds
\* a file that is in the membership index.
C19_Witness ==
  \E p \in Procs :
    /\ pc[p] = "readdir_done" /\ found[p].node = 1
    /\ Len(found[p].ents) = 3
    /\ found[p].ents[2] = [Inode |-> 4, Type |-> "DT_Dir", Name |-> <<"d">>]
    /\ Stored # {} /\ isPresent # {}

\* ------------------------------------------------------------------ C20

\* The nodes whose child list holds node n, counted with multiplicity.
ParentSlots(n) ==
  { <<m, i>> \in (1..Len(tree)) \X (1..Len(tree)) :
      i <= Len(tree[m].Children) /\ tree[m].Children[i] = n }

\* The nodes reachable from the root in at most k steps down child lists.
RECURSIVE Reach(_)
Reach(k) ==
  IF k = 0 THEN {1}
  ELSE Reach(k - 1) \cup
       { tree[m].Children[i] :
           <<m, i>> \in { <<m, i>> \in Reach(k - 1) \X (1..Len(tree)) :
                            i <= Len(tree[m].Children) } }

\* C20: after a successful tree build every non-root node is in the child
\* list of exactly one node, exactly once, and every node is reachable from
\* the root.
C20_BuiltTreeIsRooted ==
  fsStatus = "built" =>
    /\ \A n \in 2..Len(tree) : Cardinality(ParentSlots(n)) = 1
    /\ Reach(Len(tree)) = 1..Len(tree)

\* A build succeeded and its tree has a node besides the root.
C20_Witness == fsStatus = "built" /\ Len(tree) >= 2

\* No build succeeds: NewFS ends in log.Fatalf for every backing store.
BuildNeverSucceeds == fsStatus # "built"

\* ------------------------------------------------------------------ C22

\* strings.ReplaceAll(key, "$", "/")
Unflatten(key) == [i \in 1..Len(key) |-> IF key[i] = "$" THEN "/" ELSE key[i]]

\* A relative path none of whose segments holds the marker "$".
MarkerFree(pth) ==
  /\ \A i \in 1..Len(pth) : pth[i] # "$"
  /\ pth = << >> \/ pth[1] # "/"

\* C22: flattenDirPath is injective over the relative paths whose segments
\* hold no "$": two different such paths get different keys, and replacing
\* "$" by "/" in the key of such a path gives the path back.
C22_FlattenInjective ==
  \A p, q \in Procs :
    /\ flatPath[p] # None /\ flatPath[q] # None
    /\ MarkerFree(path[p]) /\ MarkerFree(path[q])
    => /\ path[p] # path[q] => flatPath[p] # flatPath[q]
       /\ Unflatten(flatPath[p][1]) = path[p]

\* Two goroutines have flattened two different marker-free paths, one of
\* them with a separator.
C22_Witness ==
  \E p, q \in Procs :
    /\ flatPath[p] # None /\ flatPath[q] # None
    /\ MarkerFree(path[p]) /\ MarkerFree(path[q])
    /\ path[p] # path[q]
    /\ "/" \in { path[p][i] : i \in 1..Len(path[p]) }

\* ------------------------------------------------------------------ C23

\* Goroutine p holds a lock of the cache.
Holds(p) == cacheMu.writer = p \/ p \in cacheMu.readers \/ queueMu = p

\* The positions of a goroutine inside Cache.Get or Cache.Put, past the
\* acquisition of the cache's lock.
InsideCache ==
  {"lru_get_promote", "lru_get_promoting", "lru_get_read", "lru_put_promote",
   "lru_put_promoting", "lru_put_update", "size_get_read", "size_put_write"}

\* C23: a request that waits on the backing store's latency or reads the
\* backing store holds no lock of the cache; locks are held only inside
\* Cache.Get and Cache.Put.
C23_NoLockAcrossBackingStore ==
  \A p \in Procs :
    /\ pc[p] = "data_nfs" => ~Holds(p)
    /\ Holds(p) => pc[p] \in InsideCache

\* One request waits on the backing store after a miss while another is inside
\* Cache.Put with the exclusive lock.
C23_Witness ==
  \E p, q \in Procs :
    /\ pc[p] = "data_nfs" /\ err[p] = ErrNotFoundCache
    /\ cacheMu.writer = q /\ pc[q] \in InsideCache

\* ------------------------------------------------------------------ C24

\* The positions of a goroutine between lruCache.Get's acquisition of
\* cacheMu and its release.
InsideLruGet == {"lru_get_promote", "lru_get_promoting", "lru_get_read"}

\* The positions of a goroutine between lruCache.Put's acquisition of
\* cacheMu and its release.
InsideLruPut == {"lru_put_promote", "lru_put_promoting", "lru_put_update"}

\* C24: every LRU Get runs under the instance's exclusive lock: while one Get
\* is between acquiring and releasing its lock, no other Get or Put on the
\* instance is inside its own locked section.
C24_LruGetExclusive ==
  \A p, q \in Procs :
    p # q /\ pc[p] \in InsideLruGet => pc[q] \notin InsideLruGet \cup InsideLruPut

\* ------------------------------------------------------------------ C25

\* Key k was in the LRU queue and has been evicted from it.
Evicted(k) == IndexOf(touched, k) # 0 /\ IndexOf(queue, k) = 0

\* C25: with the LRU cache, the read-through of an evicted key misses, and
\* once a read-through has put the key back, the next read of the key, no
\* other key touched in between, does not miss.
C25_EvictedKeyComesBack ==
  \A p \in Procs :
    (pc[p] = "get_done" /\ policy = "lru" /\ capacity >= 1) =>
      /\ Evicted(Key(p)) => err[p] = ErrNotFoundCache
      /\ readmitted = Some(Key(p)) => err[p] # ErrNotFoundCache

\* ------------------------------------------------------------------ C26

\* C26: every content-read request eventually completes, with bytes or with
\* an error, under any interleaving of concurrent requests on the shared
\* cache: no set of concurrent Get and Put calls deadlocks on the locks.
C26_RequestsComplete ==
  \A p \in Procs : (pc[p] # "idle") ~> (pc[p] = "data_done")

\* A read-through has completed and loaded the cache while the other request
\* is inside the cache with a lock.
C26_Witness ==
  \E p, q \in Procs :
    /\ pc[p] = "data_done" /\ "CACHE_LOADED" \in Logs(p)
    /\ Holds(q) /\ pc[q] \in InsideCache

\* ------------------------------------------------------------------ C21

\* C21: the inodes GenerateInode hands out are strictly increasing from call
\* to call, and no two nodes of the tree, the root included, share an inode.
C21_InodesDistinct ==
  /\ \A i, j \in 1..Len(handed) : i < j => handed[i] < handed[j]
  /\ \A m, n \in 1..Len(tree) : m # n => tree[m].Inode # tree[n].Inode

\* The builder has made the root and two more nodes, each with an inode of
\* its own call of GenerateInode.
C21_Witness ==
  /\ fsStatus = "walking"
  /\ Len(tree) >= 3
  /\ Len(handed) = Len(tree)

\* ------------------------------------------------------------------ C27

\* C27: the tree builder gives every directory node, the root included, the
\* read+execute permission bits, and every file node the read-only bits.
C27_DirectoriesRXFilesR ==
  \A n \in 1..Len(tree) :
    tree[n].Mode = IF tree[n].isDir THEN FileMode(TRUE, perm_READEXECUTE)
                   ELSE FileMode(FALSE, perm_READ)

\* ------------------------------------------------------------------ C28

\* The entry at the relative path ent lies in the subtree of a path at which
\* the walk reported an error: the walk's root, or a directory above it.
InSkippedSubtree(ent) ==
  \/ WalkRoot \in walkErrors
  \/ \E k \in 1..(Len(ent) - 1) :
       ent[k + 1] = "/" /\ ( \/ SubSeq(ent, 1, k) \in walkErrors
                            \/ AbsPath(SubSeq(ent, 1, k)) \in walkErrors )

\* C28: a traversal error on one subtree during the tree build skips only that
\* subtree: the build succeeds all the same, and the tree it returns has a
\* node for every entry outside the skipped subtree.
C28_TraversalErrorSkipsSubtree ==
  walkErrors # {} =>
    /\ fsStatus = "built"
    /\ \A ent \in nfs.entries :
         ~InSkippedSubtree(ent) =>
           \E n \in 1..Len(tree) : relPath(tree[n]) = ent

\* ------------------------------------------------------------------ C29

\* The callback cannot resolve the parent node of the entry of the call c.
Unresolved(c) ==
  /\ c.e = Nil
  /\ c.cur # nfsBaseAbs
  /\ Rel(nfsBaseAbs, Dir(c.cur)) \notin DOMAIN nodesByRelPath

\* C29: if the builder cannot resolve the already-built parent node of an
\* entry, the build stops with an error, no root node is returned, and startup
\* is aborted before the filesystem is mounted or any request is served:
\* nothing happens after log.Fatalf.
C29_UnresolvedParentIsFatal ==
  [][ /\ fsStatus # "fatal"
      /\ \A c \in WalkCalls(nfs) :
           (Unresolved(c) /\ Visit(c)) =>
             /\ fsStatus' = "fatal"
             /\ tree' = << >>
             /\ mount' = "unmounted"
             /\ \A p \in Procs : pc'[p] = "idle" /\ found'[p] = NoFound ]_vars

\* The build has ended in log.Fatalf at an entry whose parent was not
\* resolved: nodes were being made, no call reported an error, no root is
\* kept and nothing is mounted.
C29_Witness ==
  /\ fsStatus = "fatal"
  /\ handed # << >>
  /\ walkErrors = {}
  /\ tree = << >>
  /\ mount = "unmounted"

\* ------------------------------------------------------------------ C30

\* The FUSE server has handed goroutine p a request that is not answered yet.
RequestInHand(p) == pc[p] # "idle" \/ found[p] # NoFound

\* C30: tree construction completes before any request is served: the
\* filesystem is mounted and served only once NewFS has returned the whole node
\* graph, and no content read, lookup or listing is in hand while the builder
\* is still appending children.
C30_BuildIsABarrier ==
  /\ mount # "unmounted" => fsStatus = "built"
  /\ \A p \in Procs :
       RequestInHand(p) => (mount = "serving" /\ fsStatus = "built")

\* A lookup is answered on a served tree that has more than its root.
C30_Witness ==
  /\ mount = "serving"
  /\ fsStatus = "built"
  /\ Len(tree) >= 2
  /\ pc[Reader] = "lookup_done"
  /\ found[Reader] # NoFound

\* ------------------------------------------------------------------ C31

Mirrors(i, ent) ==
  /\ relPath(tree[i]) = ent
  /\ \E j \in 1..(i - 1) :
       /\ \E k \in 1..Len(tree[j].Children) : tree[j].Children[k] = i
       /\ relPath(tree[j]) = (IF Dir(ent) = <<".">> THEN << >> ELSE Dir(ent))

\* C32: the built tree mirrors the backing store: once NewFS has run over a
\* store whose NFS and SSD directories exist and whose directories can all be
\* listed, every entry at a relative path p has a node whose relative path is
\* p, appended to the child list of the node, made before it, that stands for
\* the directory of p.
C32_TreeMirrorsStore ==
  (fsStatus # "new" /\ nfs.nfsDir /\ nfs.ssdDir /\ nfs.denied = {}) =>
    \A ent \in nfs.entries : \E i \in 1..Len(tree) : Mirrors(i, ent)

\* ------------------------------------------------------------------ C33

\* The paths of the files of the tree other than pth.
OtherFiles(pth) ==
  { relPath(n) : n \in { m \in Nodes : relPath(m) # pth /\ ~NfsIsDir(relPath(m)) } }

\* C33: distinct files of the tree never share a cache key, so a content read
\* of a file never returns the bytes that were cached for another file, names
\* containing "$" included (d/c and d$c); the files of the backing store all
\* differ in their bytes.
C33_NoBytesOfAnotherFile ==
  \A p \in Procs :
    (pc[p] = "data_done" /\ res[p].err = Nil) =>
      \A other \in OtherFiles(path[p]) : res[p].bytes # NfsContent(other)

\* ------------------------------------------------------------------ C34

\* C34: the inode allocator's next operation is atomic: no two calls of
\* GenerateInode, concurrent ones included, return the same inode, and every
\* call advances the counter by exactly one.
C34_GenerateInodeAtomic ==
  /\ \A i, j \in 1..Len(handed) : i # j => handed[i] # handed[j]
  /\ (\A p \in Procs : pc[p] \notin {"inode_loaded", "inode_stored"}) =>
       lastInode = Len(handed) + 1

\* ------------------------------------------------------------------ C35

\* The payloads that the content reads put under the key k: the bytes of the
\* files whose path flattens to k.
CompletePayloads(k) ==
  { NfsContent(relPath(n)) :
      n \in { m \in Nodes : ~NfsIsDir(relPath(m)) /\ flattenDirPath(relPath(m)) = k } }

\* Another request's Put of p's key has opened the file and not yet written it.
PutWriting(p) ==
  \E o \in Procs \ {p} : Key(o) = Key(p) /\ pc[o] = "def_put_write"

\* C35: for every cache policy, under concurrent requests a cache hit returns
\* the complete payload of one completed Put of that key: no Get reads the
\* storage while another request's Put holds the cache exclusively, and a Get
\* that runs while another request's Put of the same key is writing storage
\* never returns empty or partially written bytes as a hit.
C35_HitIsCompletePayload ==
  [][\A p \in Procs :
       (pc[p] # "get_done" /\ pc'[p] = "get_done" /\ err'[p] = Nil) =>
         /\ cacheMu.writer \notin Procs \ {p}
         /\ PutWriting(p) => buf'[p] \in CompletePayloads(Key(p))]_vars

\* ------------------------------------------------------------------ C36

\* The sum of the sizes of the payloads stored under the keys ks.
RECURSIVE StoredBytes(_)
StoredBytes(ks) ==
  IF ks = {} THEN 0
  ELSE LET k == CHOOSE x \in ks : TRUE
       IN  (IF ssd[k] = NoFile THEN 0 ELSE Len(ssd[k][1])) + StoredBytes(ks \ {k})

\* C36: with the size-bounded cache, under any interleaving of concurrent
\* read-throughs each file is charged against the byte budget at most once: the
\* admitted-byte total always equals the sum of the payload sizes of the
\* distinct keys in the membership index.
C36_EachFileChargedOnce ==
  policy = "size" => byteCount = StoredBytes(isPresent)

\* ------------------------------------------------------------------ C37

\* C37: if a directory node has an immediate child named n, Lookup(n) on that
\* directory returns that immediate child, never a node of that name inside
\* the subtree of an earlier sibling directory.
C37_ImmediateChildWins ==
  \A p \in Procs :
    (pc[p] = "lookup_done"
       /\ ChildrenNamed(found[p].node, found[p].name) # {}) =>
      /\ found[p].result # None
      /\ found[p].result[1] \in ChildrenNamed(found[p].node, found[p].name)

\* ------------------------------------------------------------------ C38

\* C38: every LRU cache instance that NewLRUCache returns has capacity >= 1 (a
\* negative capacity is rejected at construction like zero), so that on no
\* instance a Put evicts the key it has just inserted.
C38_LruCapacityAtLeastOne ==
  (policy = "lru" /\ status = "ready") =>
    /\ capacity >= 1
    /\ \A p \in Procs : pc[p] = "lru_put_update" => evicted[p] # Some(Key(p))

\* ------------------------------------------------------------------ C39

\* Goroutine p's size-limited or LRU Put takes the step of its os.WriteFile and
\* the payload is not in the file afterwards: the write failed.
PutWriteFails(p) ==
  /\ pc[p] \in {"size_put_write", "lru_put"}
  /\ pc'[p] # pc[p]
  /\ ssd'[Key(p)] # Some(buf[p])

\* C39: a size-bounded or LRU Put whose physical storage write fails returns
\* that error and leaves all bookkeeping unchanged: the admitted-byte total,
\* the membership index and the LRU queue are the same as before, and nothing
\* is evicted.
C39_FailedWriteChangesNoBookkeeping ==
  [][\A p \in Procs :
       PutWriteFails(p) =>
         /\ pc'[p] = "put_done"
         /\ err'[p] = ErrIO
         /\ evicted'[p] = None
         /\ UNCHANGED <<byteCount, isPresent, queue, admitted, accepted>>]_vars

\* A Put of a cache that holds a key has returned the error of its write.
C39_Witness ==
  \E p \in Procs :
    /\ policy \in {"size", "lru"}
    /\ pc[p] = "put_done"
    /\ err[p] = ErrIO
    /\ isPresent # {}
    /\ Key(p) \notin isPresent

\* ------------------------------------------------------------------ C40

\* C40: an LRU Put of a key that is already in the queue never evicts
\* anything: the payload is overwritten, promote moves the key to the queue
\* tail and leaves the queue's length and its other keys as they are, also at
\* full capacity, and the update that follows an eviction-free promote leaves
\* the membership of every other key unchanged.
C40_RepeatedPutEvictsNothing ==
  [][\A p \in Procs :
       /\ (PutPromoteStep(p) /\ Key(p) \in Range(queue)) =>
            /\ ssd[Key(p)] = Some(buf[p])
            /\ evicted'[p] = None
            /\ queue' = MovedToTail(queue, Key(p))
            /\ Len(queue') = Len(queue)
            /\ isPresent' = isPresent
       /\ (PutUpdateStep(p) /\ evicted[p] = None) =>
            /\ queue' = queue
            /\ isPresent' \ {Key(p)} = isPresent \ {Key(p)}
            /\ Key(p) \in isPresent']_vars

\* The Put of a key that is a member, and so was in the queue, has been
\* promoted in a queue at its full capacity of two without an eviction.
C40_Witness ==
  \E p \in Procs :
    /\ policy = "lru" /\ capacity = 2 /\ Len(queue) = 2
    /\ pc[p] = "lru_put_update"
    /\ evicted[p] = None
    /\ Key(p) \in isPresent
    /\ Last(queue) = Key(p)

====
